---------------------------- MODULE Spec2Model ----------------------------
(***************************************************************************)
(* Model of the document segmentation engine, backend/text_chunker.py      *)
(* (class TextChunker).                                                    *)
(*                                                                         *)
(* A text is a sequence of one-character strings over Alphabet.  A token   *)
(* is a non-empty piece of text (a sequence of characters); the tokenizer  *)
(* is a byte-pair encoder with the pre-tokenization rule of cl100k_base    *)
(* restricted to Alphabet and a small ranked merge table.                  *)
(***************************************************************************)
EXTENDS Integers, Sequences, FiniteSets, TLC

(***************************************************************************)
(* Bounds of the model.                                                    *)
(***************************************************************************)
MaxTextLen == 5      \* longest text given to the splitters, in characters
MaxDocLen == 4       \* longest text given to the chunk builder
MaxPageLen == 2      \* longest text of a page of a multi-page document
MaxSize == 3         \* largest chunk_size and chunk_overlap of an instance
MaxOverride == 2     \* largest chunk_size given as an argument of a call
MaxIter == 7         \* iterations of the chunk_by_tokens loop that are followed
MaxIds == 2          \* ids the id generator hands out before calls stop
MaxDelta == 5        \* distance of a token total from a tier boundary

(***************************************************************************)
(* Characters.  "A" stands for the letters [A-Z], "." for the sentence     *)
(* punctuation [.!?] and " " for whitespace.                               *)
(***************************************************************************)
Alphabet == {"A", ".", " "}
Upper == {"A"}
Letters == {"A"}
Punct == {"."}
Space == {" "}

Min(a, b) == IF a < b THEN a ELSE b
Max(a, b) == IF a > b THEN a ELSE b

\* Body applied to the value of v, with v evaluated once: a local variable.
Local(v, Body(_)) == CHOOSE out \in {Body(x) : x \in {v}} : TRUE

\* seq[a:b] of Python, negative indices counted from the end.
PyIndex(i, n) == IF i < 0 THEN Max(i + n, 0) ELSE Min(i, n)
PySlice(seq, a, b) ==
  LET n == Len(seq)
      lo == PyIndex(a, n)
      hi == PyIndex(b, n)
  IN IF lo >= hi THEN << >> ELSE SubSeq(seq, lo + 1, hi)

\* Concatenation of a sequence of sequences.
RECURSIVE Flatten(_)
Flatten(ss) == IF ss = << >> THEN << >> ELSE Head(ss) \o Flatten(Tail(ss))

(***************************************************************************)
(* str.strip(), str.split() and the blank test "not text or not            *)
(* text.strip()".                                                          *)
(***************************************************************************)
RECURSIVE lstrip(_)
lstrip(t) == IF t # << >> /\ Head(t) \in Space THEN lstrip(Tail(t)) ELSE t

RECURSIVE rstrip(_)
rstrip(t) ==
  IF t # << >> /\ t[Len(t)] \in Space THEN rstrip(SubSeq(t, 1, Len(t) - 1)) ELSE t

strip(t) == rstrip(lstrip(t))

IsBlank(t) == t = << >> \/ strip(t) = << >>

\* len(text.split()): the number of maximal runs of non-whitespace.
word_count(t) ==
  Cardinality({i \in 1..Len(t) : t[i] \notin Space /\ (i = 1 \/ t[i - 1] \in Space)})

(***************************************************************************)
(* The tokenizer (self.encoding).                                          *)
(***************************************************************************)
\* Index of the last character of the run of characters of class cls that
\* starts at position i (i - 1 when t[i] is not of the class).
RunEnd(t, i, cls) ==
  LET others == {j \in i..Len(t) : t[j] \notin cls}
  IN IF others = {} THEN Len(t)
     ELSE (CHOOSE j \in others : \A k \in others : j <= k) - 1

\* End of the pre-token that starts at position i: the alternatives of the
\* cl100k_base pattern that can match over Alphabet, in the pattern's order:
\*   [^\r\n\p{L}\p{N}]?\p{L}+  |  ?[^\s\p{L}\p{N}]+  |  \s+(?!\S)  |  \s+
PreTokenEnd(t, i) ==
  LET n == Len(t)
  IN IF t[i] \in Letters THEN RunEnd(t, i, Letters)
     ELSE IF i < n /\ t[i + 1] \in Letters THEN RunEnd(t, i + 1, Letters)
     ELSE IF t[i] \in Punct THEN RunEnd(t, i, Punct)
     ELSE IF i < n /\ t[i + 1] \in Punct THEN RunEnd(t, i + 1, Punct)
     ELSE LET e == RunEnd(t, i, Space)
          IN IF e = n THEN e ELSE e - 1

RECURSIVE PreTokenizeFrom(_, _)
PreTokenizeFrom(t, i) ==
  IF i > Len(t) THEN << >>
  ELSE LET e == PreTokenEnd(t, i)
       IN <<SubSeq(t, i, e)>> \o PreTokenizeFrom(t, e + 1)

PreTokenize(t) == PreTokenizeFrom(t, 1)

\* The ranked merges of the vocabulary, lowest rank first.  As in
\* cl100k_base, a space joins the letter after it before two letters join,
\* so a word can take more tokens after a space than at the start of a text.
Merges ==
  << << <<" ">>, <<" ">> >>,
     << <<" ">>, <<"A">> >>,
     << <<"A">>, <<"A">> >>,
     << <<" ">>, <<".">> >> >>

NoRank == Len(Merges) + 1

Rank(p, q) ==
  LET hits == {k \in 1..Len(Merges) : Merges[k] = <<p, q>>}
  IN IF hits = {} THEN NoRank ELSE CHOOSE k \in hits : TRUE

\* Byte-pair merge of one pre-token: merge the adjacent pair of lowest rank
\* (the leftmost one among equals) until no adjacent pair is in the table.
RECURSIVE bpe(_)
bpe(parts) ==
  LET n == Len(parts)
      rk(i) == Rank(parts[i], parts[i + 1])
      best == IF n < 2 THEN 0
              ELSE CHOOSE i \in 1..(n - 1) :
                     \A j \in 1..(n - 1) : rk(i) < rk(j) \/ (rk(i) = rk(j) /\ i <= j)
  IN IF n < 2 \/ rk(best) = NoRank THEN parts
     ELSE bpe(SubSeq(parts, 1, best - 1)
              \o <<parts[best] \o parts[best + 1]>>
              \o SubSeq(parts, best + 2, n))

Bytes(piece) == [i \in 1..Len(piece) |-> <<piece[i]>>]

RECURSIVE EncodePieces(_)
EncodePieces(pieces) ==
  IF pieces = << >> THEN << >>
  ELSE bpe(Bytes(Head(pieces))) \o EncodePieces(Tail(pieces))

\* self.encoding.encode(text): the sequence of tokens of a text.
encode(t) == EncodePieces(PreTokenize(t))

\* self.encoding.decode(tokens): the text of a sequence of tokens.
decode(toks) == Flatten(toks)

\* TextChunker.count_tokens
count_tokens(t) == IF t = << >> THEN 0 ELSE Len(encode(t))


(***************************************************************************)
(* Optional arguments: << >> is None, <<v>> is the value v.                *)
(***************************************************************************)
None == << >>
Some(v) == <<v>>

\* Python's "x or default": None and 0 both give the default.
PyOr(opt, default) == IF opt = None \/ opt[1] = 0 THEN default ELSE opt[1]

(***************************************************************************)
(* TextChunker.chunk_by_tokens.  The while loop is followed for at most    *)
(* MaxIter iterations; returned = FALSE says that the loop was still       *)
(* running then.  windows records start_idx and end_idx of each iteration. *)
(***************************************************************************)
\* Mutant of tokens_loop: the loop runs only while a full window fits, so
\* the tokens after the last full window are dropped.
RECURSIVE tokens_loop_full_windows_only(_, _, _, _, _, _)
tokens_loop_full_windows_only(tokens, size, overlap, start_idx, chunks, windows) ==
  IF ~(start_idx + size <= Len(tokens)) \/ Len(chunks) >= MaxIter
  THEN [chunks |-> chunks, windows |-> windows, returned |-> TRUE]
  ELSE tokens_loop_full_windows_only(
         tokens, size, overlap, start_idx + size - overlap,
         Append(chunks, decode(PySlice(tokens, start_idx, start_idx + size))),
         Append(windows, <<start_idx, start_idx + size>>))

RECURSIVE tokens_loop(_, _, _, _, _, _)
tokens_loop(tokens, size, overlap, start_idx, chunks, windows) ==
  LET total_tokens == Len(tokens)
      done(r) == [chunks |-> chunks, windows |-> windows, returned |-> r]
  IN IF ~(start_idx < total_tokens) THEN done(TRUE)
     ELSE IF Len(chunks) >= MaxIter THEN done(FALSE)
     ELSE LET end_idx == Min(start_idx + size, total_tokens)
              chunk_text == decode(PySlice(tokens, start_idx, end_idx))
              chunks2 == Append(chunks, chunk_text)
              windows2 == Append(windows, <<start_idx, end_idx>>)
          IN IF end_idx >= total_tokens
             THEN [chunks |-> chunks2, windows |-> windows2, returned |-> TRUE]
             ELSE tokens_loop(tokens, size, overlap,
                              start_idx + size - overlap, chunks2, windows2)

\* Mutant of chunk_by_tokens: the window advances by the full chunk size,
\* the overlap is not subtracted.
chunk_by_tokens_no_overlap(text, size_opt, overlap_opt, self_size, self_overlap) ==
  IF IsBlank(text)
  THEN [chunks |-> << >>, windows |-> << >>, returned |-> TRUE]
  ELSE tokens_loop(encode(text), PyOr(size_opt, self_size), 0, 0, << >>, << >>)

\* Mutant of chunk_by_tokens: the chunk_size argument is not looked at.
chunk_by_tokens_ignores_size(text, size_opt, overlap_opt, self_size, self_overlap) ==
  IF IsBlank(text)
  THEN [chunks |-> << >>, windows |-> << >>, returned |-> TRUE]
  ELSE tokens_loop(encode(text), self_size, PyOr(overlap_opt, self_overlap),
                   0, << >>, << >>)

chunk_by_tokens(text, size_opt, overlap_opt, self_size, self_overlap) ==
  IF IsBlank(text)
  THEN [chunks |-> << >>, windows |-> << >>, returned |-> TRUE]
  ELSE tokens_loop(encode(text),
                   PyOr(size_opt, self_size),
                   PyOr(overlap_opt, self_overlap),
                   0, << >>, << >>)

(***************************************************************************)
(* re.split(r'(?<=[.!?])\s+(?=[A-Z])', text): cut at every run of          *)
(* whitespace that follows sentence punctuation and is followed by an      *)
(* upper-case letter; the run itself is dropped.                           *)
(***************************************************************************)
\* A match of the pattern starts at position i: the whitespace run from i
\* on follows sentence punctuation and ends before an upper-case letter.
IsCut(t, i) ==
  /\ i > 1
  /\ t[i - 1] \in Punct
  /\ t[i] \in Space
  /\ RunEnd(t, i, Space) < Len(t)
  /\ t[RunEnd(t, i, Space) + 1] \in Upper

RECURSIVE split_from(_, _, _)
split_from(t, from, i) ==
  \* from: start of the current piece; i: where the search for the next
  \* match starts
  LET cuts == {j \in i..Len(t) : IsCut(t, j)}
  IN IF cuts = {} THEN <<SubSeq(t, from, Len(t))>>
     ELSE LET c == CHOOSE j \in cuts : \A k \in cuts : j <= k
              e == RunEnd(t, c, Space)
          IN <<SubSeq(t, from, c - 1)>> \o split_from(t, e + 1, e + 1)

split_sentences(t) == split_from(t, 1, 1)

(***************************************************************************)
(* TextChunker.chunk_by_sentences.  kinds tells, for each chunk, whether   *)
(* it was flushed from the accumulator ("packed") or is a window of a      *)
(* sentence handed to chunk_by_tokens ("window").                          *)
(***************************************************************************)
Repeat(v, n) == [i \in 1..n |-> v]

\* Mutant of sentences_loop: an oversized sentence's windows are appended
\* while the accumulator is kept, to be flushed after them.
RECURSIVE sentences_loop_keeps_accumulator(_, _, _, _, _, _, _, _)
sentences_loop_keeps_accumulator(sentences, max_chunk_size, self_size, self_overlap, chunks, kinds, current_chunk, current_tokens) ==
  IF sentences = << >>
  THEN IF strip(current_chunk) # << >>
       THEN [chunks |-> Append(chunks, strip(current_chunk)),
             kinds |-> Append(kinds, "packed"), returned |-> TRUE]
       ELSE [chunks |-> chunks, kinds |-> kinds, returned |-> TRUE]
  ELSE
    LET sentence == strip(Head(sentences))
        rest == Tail(sentences)
        sentence_tokens == count_tokens(sentence)
    IN IF sentence = << >>
       THEN sentences_loop_keeps_accumulator(rest, max_chunk_size, self_size, self_overlap,
                           chunks, kinds, current_chunk, current_tokens)
       ELSE IF sentence_tokens > max_chunk_size
       THEN LET flushed == current_chunk # << >>
                chunks1 == IF flushed THEN Append(chunks, strip(current_chunk))
                           ELSE chunks
                kinds1 == IF flushed THEN Append(kinds, "packed") ELSE kinds
                large == chunk_by_tokens(sentence, Some(max_chunk_size), None,
                                         self_size, self_overlap)
                chunks2 == chunks1 \o large.chunks
                kinds2 == kinds1 \o Repeat("window", Len(large.chunks))
            IN IF ~large.returned
               THEN [chunks |-> chunks2, kinds |-> kinds2, returned |-> FALSE]
               ELSE sentences_loop_keeps_accumulator(
                      rest, max_chunk_size, self_size, self_overlap,
                      chunks \o large.chunks,
                      kinds \o Repeat("window", Len(large.chunks)),
                      current_chunk, current_tokens)
       ELSE IF current_tokens + sentence_tokens > max_chunk_size
               /\ current_chunk # << >>
       THEN sentences_loop_keeps_accumulator(rest, max_chunk_size, self_size, self_overlap,
                           Append(chunks, strip(current_chunk)),
                           Append(kinds, "packed"),
                           sentence \o <<" ">>, sentence_tokens)
       ELSE sentences_loop_keeps_accumulator(rest, max_chunk_size, self_size, self_overlap,
                           chunks, kinds,
                           current_chunk \o sentence \o <<" ">>,
                           current_tokens + sentence_tokens)

RECURSIVE sentences_loop(_, _, _, _, _, _, _, _)
sentences_loop(sentences, max_chunk_size, self_size, self_overlap, chunks, kinds, current_chunk, current_tokens) ==
  IF sentences = << >>
  THEN IF strip(current_chunk) # << >>
       THEN [chunks |-> Append(chunks, strip(current_chunk)),
             kinds |-> Append(kinds, "packed"), returned |-> TRUE]
       ELSE [chunks |-> chunks, kinds |-> kinds, returned |-> TRUE]
  ELSE
    LET sentence == strip(Head(sentences))
        rest == Tail(sentences)
        sentence_tokens == count_tokens(sentence)
    IN IF sentence = << >>
       THEN sentences_loop(rest, max_chunk_size, self_size, self_overlap,
                           chunks, kinds, current_chunk, current_tokens)
       ELSE IF sentence_tokens > max_chunk_size
       THEN LET flushed == current_chunk # << >>
                chunks1 == IF flushed THEN Append(chunks, strip(current_chunk))
                           ELSE chunks
                kinds1 == IF flushed THEN Append(kinds, "packed") ELSE kinds
                large == chunk_by_tokens(sentence, Some(max_chunk_size), None,
                                         self_size, self_overlap)
                chunks2 == chunks1 \o large.chunks
                kinds2 == kinds1 \o Repeat("window", Len(large.chunks))
            IN IF ~large.returned
               THEN [chunks |-> chunks2, kinds |-> kinds2, returned |-> FALSE]
               ELSE sentences_loop(rest, max_chunk_size, self_size, self_overlap,
                                   chunks2, kinds2, << >>, 0)
       ELSE IF current_tokens + sentence_tokens > max_chunk_size
               /\ current_chunk # << >>
       THEN sentences_loop(rest, max_chunk_size, self_size, self_overlap,
                           Append(chunks, strip(current_chunk)),
                           Append(kinds, "packed"),
                           sentence \o <<" ">>, sentence_tokens)
       ELSE sentences_loop(rest, max_chunk_size, self_size, self_overlap,
                           chunks, kinds,
                           current_chunk \o sentence \o <<" ">>,
                           current_tokens + sentence_tokens)

chunk_by_sentences(text, max_opt, self_size, self_overlap) ==
  IF IsBlank(text)
  THEN [chunks |-> << >>, kinds |-> << >>, returned |-> TRUE]
  ELSE sentences_loop(split_sentences(text), PyOr(max_opt, self_size),
                      self_size, self_overlap, << >>, << >>, << >>, 0)

(***************************************************************************)
(* Chunk records.  minted is the sequence of the chunk ids given out so    *)
(* far, in the order of the uuid4 calls; uuid4 is a fresh-id generator:     *)
(* its n-th call returns n.  page_number None is NoPage.                   *)
(***************************************************************************)
NoPage == 0

uuid4(minted) == Len(minted) + 1

\* The dictionary built in create_chunks for the raw chunk at position idx.
chunk_data(chunk_id, chunk_text, idx, source_file, page_number, chunking_strategy) ==
  [chunk_id |-> chunk_id,
   text |-> chunk_text,
   chunk_index |-> idx,
   source_file |-> source_file,
   page_number |-> page_number,
   token_count |-> count_tokens(chunk_text),
   character_count |-> Len(chunk_text),
   word_count |-> word_count(chunk_text),
   chunking_strategy |-> chunking_strategy]

\* TextChunker.create_chunks
create_chunks(text, source_file, page_number, chunking_strategy, self_size, self_overlap, minted) ==
  IF IsBlank(text)
  THEN [chunks |-> << >>, minted |-> minted, returned |-> TRUE]
  ELSE Local(
    IF chunking_strategy = "sentences"
    THEN chunk_by_sentences(text, None, self_size, self_overlap)
    ELSE chunk_by_tokens(text, None, None, self_size, self_overlap),
    LAMBDA raw :
      IF ~raw.returned
      THEN [chunks |-> << >>, minted |-> minted, returned |-> FALSE]
      ELSE Local(
        [k \in 1..Len(raw.chunks) |->
           chunk_data(uuid4(minted) + k - 1, raw.chunks[k], k - 1,
                      source_file, page_number, chunking_strategy)],
        LAMBDA structured_chunks :
          [chunks |-> structured_chunks,
           minted |-> minted \o [k \in 1..Len(structured_chunks) |->
                                   structured_chunks[k].chunk_id],
           returned |-> TRUE]))

(***************************************************************************)
(* TextChunker.calculate_optimal_chunk_size                                *)
(***************************************************************************)
ShortDocument == 2000
MediumDocument == 10000
LongDocument == 50000
ShortOptimal == 500
MediumOptimal == 1000
LongOptimal == 1500
VeryLongOptimal == 2000

\* Mutant of calculate_optimal_chunk_size: a document of exactly
\* ShortDocument tokens counts as a medium one.
calculate_optimal_chunk_size_open_tier(document_length) ==
  IF document_length < ShortDocument THEN ShortOptimal
  ELSE IF document_length <= MediumDocument THEN MediumOptimal
  ELSE IF document_length <= LongDocument THEN LongOptimal
  ELSE VeryLongOptimal

calculate_optimal_chunk_size(document_length) ==
  IF document_length <= ShortDocument THEN ShortOptimal
  ELSE IF document_length <= MediumDocument THEN MediumOptimal
  ELSE IF document_length <= LongDocument THEN LongOptimal
  ELSE VeryLongOptimal

(***************************************************************************)
(* TextChunker.merge_small_chunks                                          *)
(***************************************************************************)
DefaultMinChunkSize == 100

\* Mutant of merged_chunk: the token count of the merged chunk is the sum of
\* the token counts of its two sources, not the count of the merged text.
merged_chunk_summed_tokens(chunk_id, current_chunk, next_chunk) ==
  LET merged_text == current_chunk.text \o <<" ">> \o next_chunk.text
  IN [chunk_id |-> chunk_id,
      text |-> merged_text,
      chunk_index |-> current_chunk.chunk_index,
      source_file |-> current_chunk.source_file,
      page_number |-> current_chunk.page_number,
      token_count |-> current_chunk.token_count + next_chunk.token_count,
      character_count |-> Len(merged_text),
      word_count |-> word_count(merged_text),
      chunking_strategy |-> current_chunk.chunking_strategy \o "_merged"]

\* Mutant of merged_chunk: the merged chunk keeps the id of the current
\* chunk, no new id is drawn for it.
merged_chunk_keeps_id(chunk_id, current_chunk, next_chunk) ==
  LET merged_text == current_chunk.text \o <<" ">> \o next_chunk.text
  IN [chunk_id |-> current_chunk.chunk_id,
      text |-> merged_text,
      chunk_index |-> current_chunk.chunk_index,
      source_file |-> current_chunk.source_file,
      page_number |-> current_chunk.page_number,
      token_count |-> count_tokens(merged_text),
      character_count |-> Len(merged_text),
      word_count |-> word_count(merged_text),
      chunking_strategy |-> current_chunk.chunking_strategy \o "_merged"]

\* Mutant of merged_chunk: the merged chunk takes chunk_index from the later
\* of its two sources.
merged_chunk_next_index(chunk_id, current_chunk, next_chunk) ==
  LET merged_text == current_chunk.text \o <<" ">> \o next_chunk.text
  IN [chunk_id |-> chunk_id,
      text |-> merged_text,
      chunk_index |-> next_chunk.chunk_index,
      source_file |-> current_chunk.source_file,
      page_number |-> current_chunk.page_number,
      token_count |-> count_tokens(merged_text),
      character_count |-> Len(merged_text),
      word_count |-> word_count(merged_text),
      chunking_strategy |-> current_chunk.chunking_strategy \o "_merged"]

\* Mutant of merged_chunk: the merged chunk holds the text of the current
\* chunk only.
merged_chunk_current_text_only(chunk_id, current_chunk, next_chunk) ==
  LET merged_text == current_chunk.text
  IN [chunk_id |-> chunk_id,
      text |-> merged_text,
      chunk_index |-> current_chunk.chunk_index,
      source_file |-> current_chunk.source_file,
      page_number |-> current_chunk.page_number,
      token_count |-> count_tokens(merged_text),
      character_count |-> Len(merged_text),
      word_count |-> word_count(merged_text),
      chunking_strategy |-> current_chunk.chunking_strategy \o "_merged"]

\* The dictionary built for the merge of current_chunk and next_chunk.
merged_chunk(chunk_id, current_chunk, next_chunk) ==
  LET merged_text == current_chunk.text \o <<" ">> \o next_chunk.text
  IN [chunk_id |-> chunk_id,
      text |-> merged_text,
      chunk_index |-> current_chunk.chunk_index,
      source_file |-> current_chunk.source_file,
      page_number |-> current_chunk.page_number,
      token_count |-> count_tokens(merged_text),
      character_count |-> Len(merged_text),
      word_count |-> word_count(merged_text),
      chunking_strategy |-> current_chunk.chunking_strategy \o "_merged"]

\* Mutant of merge_loop: a chunk of exactly min_chunk_size tokens counts as
\* too small.
RECURSIVE merge_loop_strict(_, _, _, _, _, _)
merge_loop_strict(chunks, min_chunk_size, i, merged_chunks, minted, origins) ==
  IF ~(i < Len(chunks))
  THEN [chunks |-> merged_chunks, minted |-> minted, origins |-> origins]
  ELSE LET current_chunk == chunks[i + 1]
       IN IF current_chunk.token_count > min_chunk_size
          THEN merge_loop_strict(chunks, min_chunk_size, i + 1,
                                 Append(merged_chunks, current_chunk), minted,
                                 Append(origins, <<i, 1>>))
          ELSE IF i + 1 < Len(chunks)
          THEN LET merged == merged_chunk(uuid4(minted), current_chunk,
                                          chunks[i + 2])
               IN merge_loop_strict(chunks, min_chunk_size, i + 2,
                                    Append(merged_chunks, merged),
                                    Append(minted, merged.chunk_id),
                                    Append(origins, <<i, 2>>))
          ELSE merge_loop_strict(chunks, min_chunk_size, i + 1,
                                 Append(merged_chunks, current_chunk), minted,
                                 Append(origins, <<i, 1>>))

\* Mutant of merge_loop: a chunk that is too small is merged only with a
\* next chunk that is too small as well.
RECURSIVE merge_loop_small_pairs_only(_, _, _, _, _, _)
merge_loop_small_pairs_only(chunks, min_chunk_size, i, merged_chunks, minted, origins) ==
  IF ~(i < Len(chunks))
  THEN [chunks |-> merged_chunks, minted |-> minted, origins |-> origins]
  ELSE LET current_chunk == chunks[i + 1]
       IN IF current_chunk.token_count >= min_chunk_size
          THEN merge_loop_small_pairs_only(chunks, min_chunk_size, i + 1,
                          Append(merged_chunks, current_chunk), minted,
                          Append(origins, <<i, 1>>))
          ELSE IF i + 1 < Len(chunks)
                  /\ chunks[i + 2].token_count < min_chunk_size
          THEN LET merged == merged_chunk(uuid4(minted), current_chunk,
                                          chunks[i + 2])
               IN merge_loop_small_pairs_only(chunks, min_chunk_size, i + 2,
                             Append(merged_chunks, merged),
                             Append(minted, merged.chunk_id),
                             Append(origins, <<i, 2>>))
          ELSE merge_loop_small_pairs_only(chunks, min_chunk_size, i + 1,
                          Append(merged_chunks, current_chunk), minted,
                          Append(origins, <<i, 1>>))

RECURSIVE merge_loop(_, _, _, _, _, _)
merge_loop(chunks, min_chunk_size, i, merged_chunks, minted, origins) ==
  \* i is the 0-based position of the source's loop; origins records, for
  \* each chunk appended, <<i, number of input chunks it was made of>>
  IF ~(i < Len(chunks))
  THEN [chunks |-> merged_chunks, minted |-> minted, origins |-> origins]
  ELSE LET current_chunk == chunks[i + 1]
       IN IF current_chunk.token_count >= min_chunk_size
          THEN merge_loop(chunks, min_chunk_size, i + 1,
                          Append(merged_chunks, current_chunk), minted,
                          Append(origins, <<i, 1>>))
          ELSE IF i + 1 < Len(chunks)
          THEN LET merged == merged_chunk(uuid4(minted), current_chunk,
                                          chunks[i + 2])
               IN merge_loop(chunks, min_chunk_size, i + 2,
                             Append(merged_chunks, merged),
                             Append(minted, merged.chunk_id),
                             Append(origins, <<i, 2>>))
          ELSE merge_loop(chunks, min_chunk_size, i + 1,
                          Append(merged_chunks, current_chunk), minted,
                          Append(origins, <<i, 1>>))

\* Mutant of merge_small_chunks: the pass is repeated on its own result, so
\* a merged chunk that is still too small is merged again.
merge_small_chunks_two_passes(chunks, min_chunk_size, minted) ==
  IF chunks = << >>
  THEN [chunks |-> << >>, minted |-> minted, origins |-> << >>]
  ELSE LET first == merge_loop(chunks, min_chunk_size, 0, << >>, minted, << >>)
           second == merge_loop(first.chunks, min_chunk_size, 0, << >>,
                                first.minted, << >>)
       IN [chunks |-> second.chunks, minted |-> second.minted,
           origins |-> first.origins]

\* Mutant of merge_small_chunks: the chunks returned are numbered anew, by
\* their position in the result.
merge_small_chunks_renumbered(chunks, min_chunk_size, minted) ==
  IF chunks = << >>
  THEN [chunks |-> << >>, minted |-> minted, origins |-> << >>]
  ELSE LET r == merge_loop(chunks, min_chunk_size, 0, << >>, minted, << >>)
       IN [r EXCEPT !.chunks = [k \in 1..Len(r.chunks) |->
                                  [r.chunks[k] EXCEPT !.chunk_index = k - 1]]]

merge_small_chunks(chunks, min_chunk_size, minted) ==
  IF chunks = << >>
  THEN [chunks |-> << >>, minted |-> minted, origins |-> << >>]
  ELSE merge_loop(chunks, min_chunk_size, 0, << >>, minted, << >>)

(***************************************************************************)
(* TextChunker.chunk_document.  size is the value of self.chunk_size when  *)
(* the call returns (or stops returning); advised holds doc_tokens, the    *)
(* token total the advisor was asked about, once per assignment of         *)
(* self.chunk_size.                                                        *)
(***************************************************************************)
MinSizeFloor == 100
MinSizeDivisor == 10

\* Mutant of chunk_document: the advisor's size is used for this call only,
\* self.chunk_size keeps the value it had.
chunk_document_keeps_size(text, source_file, page_number, auto_optimize, self_size, self_overlap, minted) ==
  IF IsBlank(text)
  THEN [chunks |-> << >>, size |-> self_size, minted |-> minted,
        advised |-> << >>, returned |-> TRUE]
  ELSE Local(
    IF auto_optimize
    THEN calculate_optimal_chunk_size(count_tokens(text))
    ELSE self_size,
    LAMBDA size : Local(
      create_chunks(text, source_file, page_number, "sentences",
                    size, self_overlap, minted),
      LAMBDA made :
        LET advised == IF auto_optimize THEN <<count_tokens(text)>> ELSE << >>
        IN IF ~made.returned
           THEN [chunks |-> << >>, size |-> self_size, minted |-> minted,
                 advised |-> advised, returned |-> FALSE]
           ELSE IF auto_optimize /\ made.chunks # << >>
           THEN Local(
             merge_small_chunks(made.chunks,
                                Max(MinSizeFloor, size \div MinSizeDivisor),
                                made.minted),
             LAMBDA merged :
               [chunks |-> merged.chunks, size |-> self_size,
                minted |-> merged.minted, advised |-> advised,
                returned |-> TRUE])
           ELSE [chunks |-> made.chunks, size |-> self_size,
                 minted |-> made.minted, advised |-> advised,
                 returned |-> TRUE]))

\* Mutant of chunk_document: the advisor runs before the text is tested for
\* blankness.
chunk_document_optimizes_first(text, source_file, page_number, auto_optimize, self_size, self_overlap, minted) ==
  Local(
    IF auto_optimize
    THEN calculate_optimal_chunk_size(count_tokens(text))
    ELSE self_size,
    LAMBDA size :
      IF IsBlank(text)
      THEN [chunks |-> << >>, size |-> size, minted |-> minted,
            advised |-> << >>, returned |-> TRUE]
      ELSE Local(
        create_chunks(text, source_file, page_number, "sentences",
                      size, self_overlap, minted),
        LAMBDA made :
          LET advised == IF auto_optimize THEN <<count_tokens(text)>> ELSE << >>
          IN IF ~made.returned
             THEN [chunks |-> << >>, size |-> size, minted |-> minted,
                   advised |-> advised, returned |-> FALSE]
             ELSE IF auto_optimize /\ made.chunks # << >>
             THEN Local(
               merge_small_chunks(made.chunks,
                                  Max(MinSizeFloor, size \div MinSizeDivisor),
                                  made.minted),
               LAMBDA merged :
                 [chunks |-> merged.chunks, size |-> size,
                  minted |-> merged.minted, advised |-> advised,
                  returned |-> TRUE])
             ELSE [chunks |-> made.chunks, size |-> size,
                   minted |-> made.minted, advised |-> advised,
                   returned |-> TRUE]))

\* Mutant of chunk_document: the advisor's size is stored whether or not
\* auto_optimize is set.
chunk_document_always_optimizes(text, source_file, page_number, auto_optimize, self_size, self_overlap, minted) ==
  IF IsBlank(text)
  THEN [chunks |-> << >>, size |-> self_size, minted |-> minted,
        advised |-> << >>, returned |-> TRUE]
  ELSE Local(
    calculate_optimal_chunk_size(count_tokens(text)),
    LAMBDA size : Local(
      create_chunks(text, source_file, page_number, "sentences",
                    size, self_overlap, minted),
      LAMBDA made :
        LET advised == IF auto_optimize THEN <<count_tokens(text)>> ELSE << >>
        IN IF ~made.returned
           THEN [chunks |-> << >>, size |-> size, minted |-> minted,
                 advised |-> advised, returned |-> FALSE]
           ELSE IF auto_optimize /\ made.chunks # << >>
           THEN Local(
             merge_small_chunks(made.chunks,
                                Max(MinSizeFloor, size \div MinSizeDivisor),
                                made.minted),
             LAMBDA merged :
               [chunks |-> merged.chunks, size |-> size,
                minted |-> merged.minted, advised |-> advised,
                returned |-> TRUE])
           ELSE [chunks |-> made.chunks, size |-> size,
                 minted |-> made.minted, advised |-> advised,
                 returned |-> TRUE]))

chunk_document(text, source_file, page_number, auto_optimize, self_size, self_overlap, minted) ==
  IF IsBlank(text)
  THEN [chunks |-> << >>, size |-> self_size, minted |-> minted,
        advised |-> << >>, returned |-> TRUE]
  ELSE Local(
    IF auto_optimize
    THEN calculate_optimal_chunk_size(count_tokens(text))
    ELSE self_size,
    LAMBDA size : Local(
      create_chunks(text, source_file, page_number, "sentences",
                    size, self_overlap, minted),
      LAMBDA made :
        LET advised == IF auto_optimize THEN <<count_tokens(text)>> ELSE << >>
        IN IF ~made.returned
           THEN [chunks |-> << >>, size |-> size, minted |-> minted,
                 advised |-> advised, returned |-> FALSE]
           ELSE IF auto_optimize /\ made.chunks # << >>
           THEN Local(
             merge_small_chunks(made.chunks,
                                Max(MinSizeFloor, size \div MinSizeDivisor),
                                made.minted),
             LAMBDA merged :
               [chunks |-> merged.chunks, size |-> size,
                minted |-> merged.minted, advised |-> advised,
                returned |-> TRUE])
           ELSE [chunks |-> made.chunks, size |-> size,
                 minted |-> made.minted, advised |-> advised,
                 returned |-> TRUE]))

(***************************************************************************)
(* TextChunker.chunk_multiple_pages.  pages is pages_dict as the sequence  *)
(* of its <<page_num, page_text>> items in the dictionary's own order.     *)
(***************************************************************************)
RECURSIVE pages_loop(_, _, _, _, _, _, _, _)
pages_loop(pages, source_file, auto_optimize, self_size, self_overlap, minted, all_chunks, advised) ==
  IF pages = << >>
  THEN [chunks |-> all_chunks, size |-> self_size, minted |-> minted,
        advised |-> advised, returned |-> TRUE]
  ELSE LET page_num == Head(pages)[1]
           page_text == Head(pages)[2]
       IN IF IsBlank(page_text)
          THEN pages_loop(Tail(pages), source_file, auto_optimize, self_size,
                          self_overlap, minted, all_chunks, advised)
          ELSE Local(
            chunk_document(page_text, source_file, page_num, auto_optimize,
                           self_size, self_overlap, minted),
            LAMBDA page_chunks :
              IF ~page_chunks.returned
              THEN [chunks |-> all_chunks, size |-> page_chunks.size,
                    minted |-> minted,
                    advised |-> advised \o page_chunks.advised,
                    returned |-> FALSE]
              ELSE pages_loop(Tail(pages), source_file, auto_optimize,
                              page_chunks.size, self_overlap, page_chunks.minted,
                              all_chunks \o page_chunks.chunks,
                              advised \o page_chunks.advised))

\* Mutant of chunk_multiple_pages: only the first page of the dictionary is
\* chunked.
chunk_multiple_pages_first_page_only(pages, source_file, auto_optimize, self_size, self_overlap, minted) ==
  pages_loop(PySlice(pages, 0, 1), source_file, auto_optimize, self_size,
             self_overlap, minted, << >>, << >>)

chunk_multiple_pages(pages, source_file, auto_optimize, self_size, self_overlap, minted) ==
  pages_loop(pages, source_file, auto_optimize, self_size, self_overlap,
             minted, << >>, << >>)

(***************************************************************************)
(* TextChunker.get_chunk_statistics.  The averages, round(total / n, 2),   *)
(* are kept in hundredths; a list of fewer than 8 chunks has no average    *)
(* that lies half-way between two hundredths.                              *)
(***************************************************************************)
RECURSIVE sum(_)
sum(seq) == IF seq = << >> THEN 0 ELSE Head(seq) + sum(Tail(seq))

RECURSIVE min(_)
min(seq) == IF Len(seq) = 1 THEN seq[1] ELSE Min(Head(seq), min(Tail(seq)))

RECURSIVE max(_)
max(seq) == IF Len(seq) = 1 THEN seq[1] ELSE Max(Head(seq), max(Tail(seq)))

Hundredths == 100
round2(total, n) == (2 * Hundredths * total + n) \div (2 * n)

\* Mutant of get_chunk_statistics: min_tokens is the token count of the
\* first chunk.
get_chunk_statistics_first_as_min(chunks) ==
  IF chunks = << >>
  THEN [total_chunks |-> 0, total_tokens |-> 0, total_characters |-> 0,
        total_words |-> 0, avg_tokens_per_chunk |-> 0,
        avg_chars_per_chunk |-> 0, avg_words_per_chunk |-> 0,
        min_tokens |-> 0, max_tokens |-> 0]
  ELSE LET token_counts == [k \in 1..Len(chunks) |-> chunks[k].token_count]
           total_tokens == sum(token_counts)
           total_chars == sum([k \in 1..Len(chunks) |-> chunks[k].character_count])
           total_words == sum([k \in 1..Len(chunks) |-> chunks[k].word_count])
       IN [total_chunks |-> Len(chunks),
           total_tokens |-> total_tokens,
           total_characters |-> total_chars,
           total_words |-> total_words,
           avg_tokens_per_chunk |-> round2(total_tokens, Len(chunks)),
           avg_chars_per_chunk |-> round2(total_chars, Len(chunks)),
           avg_words_per_chunk |-> round2(total_words, Len(chunks)),
           min_tokens |-> token_counts[1],
           max_tokens |-> max(token_counts)]

get_chunk_statistics(chunks) ==
  IF chunks = << >>
  THEN [total_chunks |-> 0, total_tokens |-> 0, total_characters |-> 0,
        total_words |-> 0, avg_tokens_per_chunk |-> 0,
        avg_chars_per_chunk |-> 0, avg_words_per_chunk |-> 0,
        min_tokens |-> 0, max_tokens |-> 0]
  ELSE LET token_counts == [k \in 1..Len(chunks) |-> chunks[k].token_count]
           total_tokens == sum(token_counts)
           total_chars == sum([k \in 1..Len(chunks) |-> chunks[k].character_count])
           total_words == sum([k \in 1..Len(chunks) |-> chunks[k].word_count])
       IN [total_chunks |-> Len(chunks),
           total_tokens |-> total_tokens,
           total_characters |-> total_chars,
           total_words |-> total_words,
           avg_tokens_per_chunk |-> round2(total_tokens, Len(chunks)),
           avg_chars_per_chunk |-> round2(total_chars, Len(chunks)),
           avg_words_per_chunk |-> round2(total_words, Len(chunks)),
           min_tokens |-> min(token_counts),
           max_tokens |-> max(token_counts)]

(***************************************************************************)
(* The state: one TextChunker instance and the call made on it.            *)
(***************************************************************************)
VARIABLES
  chunk_size,     \* self.chunk_size
  chunk_overlap,  \* self.chunk_overlap
  minted,         \* the chunk ids given out so far, in order
  op,             \* the method called ("idle" between calls)
  args,           \* its arguments
  raw_chunks,     \* the strings it returned (chunk_by_tokens, chunk_by_sentences)
  windows,        \* chunk_by_tokens: <<start_idx, end_idx>> of each iteration
  kinds,          \* chunk_by_sentences: "packed" or "window", per string
  chunks,         \* the chunk records it returned
  origins,        \* merge_small_chunks: <<position, chunks consumed>>, per record
  advised,        \* the token totals the advisor was run on during the call
  result,         \* the value returned by a call that returns no chunks
  status,         \* "returned", or "running" when the call has not returned
  tokenizer,      \* tiktoken's encodings and the one the instance holds
  selves,         \* concurrent calls: the instances, by instance number
  calls           \* concurrent calls: each thread's chunk_document call

vars == <<chunk_size, chunk_overlap, minted, op, args, raw_chunks, windows,
          kinds, chunks, origins, advised, result, status, tokenizer, selves,
          calls>>

\* Inputs.
Texts == UNION {[1..n -> Alphabet] : n \in 0..MaxTextLen}
DocTexts == UNION {[1..n -> Alphabet] : n \in 0..MaxDocLen}
\* A page is empty, one blank, or words and full stops.
PageTexts == {<<" ">>} \cup UNION {[1..n -> Upper \cup Punct] : n \in 0..MaxPageLen}
PageDicts ==
  {<<<<p, t>>>> : p \in 1..2, t \in PageTexts}
    \cup {<<<<p[1], t1>>, <<p[2], t2>>>> :
            p \in {<<1, 2>>, <<2, 1>>}, t1 \in PageTexts, t2 \in PageTexts}
SizeOverrides == {None} \cup {Some(m) : m \in 1..MaxOverride}
OverlapOverrides == {None} \cup {Some(m) : m \in 0..(MaxOverride - 1)}
MinSizes == (1..MaxOverride) \cup {DefaultMinChunkSize}
SourceFile == "f.pdf"

\* A document of three sentences: a full stop (1 token), a word followed by
\* full stops (500 tokens, the advisor's chunk_size for the document), and a
\* word with its full stop (2 tokens).
Stops(n) == [i \in 1..n |-> "."]
LongDocText == <<".", " ", "A">> \o Stops(ShortOptimal - 1) \o <<" ", "A", ".">>
LongDocTexts == {LongDocText}

NoArgs ==
  [text |-> << >>, size_opt |-> None, overlap_opt |-> None,
   strategy |-> "", auto_optimize |-> FALSE, page_number |-> NoPage,
   pages |-> << >>, chunks_in |-> << >>, min_chunk_size |-> 0,
   document_length |-> 0, size_before |-> 0, minted_before |-> << >>]

\* Nothing returned.
NoResult == << >>

\* The encodings tiktoken knows by name; the default one is at hand.
DefaultEncoding == "cl100k_base"
LoadedByDefault ==
  [available |-> {DefaultEncoding}, encoding_name |-> DefaultEncoding,
   encoding |-> DefaultEncoding, warnings |-> 0]

\* tiktoken.get_encoding: the encodings that load are the environment's;
\* an unknown name, or files that are neither cached nor downloadable, raise.
Encodings == {DefaultEncoding, "p50k_base"}
EncodingNames == Encodings \cup {"no_such_encoding"}
NoEncoding == ""
get_encoding(encoding_name, available) ==
  [raised |-> encoding_name \notin available, encoding |-> encoding_name]

\* TextChunker.__init__: the except branch loads cl100k_base outside any try.
TextChunker(chunk_size_, chunk_overlap_, encoding_name, available) ==
  LET first == get_encoding(encoding_name, available)
      fallback == get_encoding(DefaultEncoding, available)
  IN IF ~first.raised
     THEN [chunk_size |-> chunk_size_, chunk_overlap |-> chunk_overlap_,
           encoding_name |-> encoding_name, encoding |-> first.encoding,
           warnings |-> 0, raised |-> FALSE]
     ELSE IF ~fallback.raised
     THEN [chunk_size |-> chunk_size_, chunk_overlap |-> chunk_overlap_,
           encoding_name |-> encoding_name, encoding |-> fallback.encoding,
           warnings |-> 1, raised |-> FALSE]
     ELSE [chunk_size |-> chunk_size_, chunk_overlap |-> chunk_overlap_,
           encoding_name |-> encoding_name, encoding |-> NoEncoding,
           warnings |-> 1, raised |-> TRUE]

\* What every call records of the state it started in.
ArgsHere == [NoArgs EXCEPT !.size_before = chunk_size, !.minted_before = minted]

Status(returned) == IF returned THEN "returned" ELSE "running"

\* A call starts on an instance that runs no call.
Idle == op = "idle" /\ Len(minted) < MaxIds

\* TextChunker.__init__: any chunk_size and chunk_overlap are accepted.
Init ==
  /\ chunk_size \in 0..MaxSize
  /\ chunk_overlap \in 0..(MaxSize - 1)
  /\ minted = << >>
  /\ op = "idle"
  /\ args = NoArgs
  /\ raw_chunks = << >>
  /\ windows = << >>
  /\ kinds = << >>
  /\ chunks = << >>
  /\ origins = << >>
  /\ advised = << >>
  /\ result = NoResult
  /\ status = "returned"
  /\ tokenizer = LoadedByDefault
  /\ selves = << >>
  /\ calls = << >>

\* No instance yet: the environment decides which encodings load.
InitConstruct ==
  /\ chunk_size = 0
  /\ chunk_overlap = 0
  /\ minted = << >>
  /\ op = "new"
  /\ args = NoArgs
  /\ raw_chunks = << >>
  /\ windows = << >>
  /\ kinds = << >>
  /\ chunks = << >>
  /\ origins = << >>
  /\ advised = << >>
  /\ result = NoResult
  /\ status = "returned"
  /\ \E available \in SUBSET Encodings :
       tokenizer = [available |-> available, encoding_name |-> NoEncoding,
                    encoding |-> NoEncoding, warnings |-> 0]
  /\ selves = << >>
  /\ calls = << >>

\* TextChunker(chunk_size, chunk_overlap, encoding_name).
Construct ==
  /\ op = "new"
  /\ \E size \in 0..MaxSize, overlap \in 0..(MaxSize - 1), encoding_name \in EncodingNames :
       LET self == TextChunker(size, overlap, encoding_name, tokenizer.available)
       IN /\ op' = "TextChunker"
          /\ chunk_size' = self.chunk_size
          /\ chunk_overlap' = self.chunk_overlap
          /\ tokenizer' = [available |-> tokenizer.available,
                           encoding_name |-> self.encoding_name,
                           encoding |-> self.encoding,
                           warnings |-> self.warnings]
          /\ status' = IF self.raised THEN "raised" ELSE "returned"
  /\ UNCHANGED <<minted, args, raw_chunks, windows, kinds, chunks, origins,
                 advised, result, selves, calls>>

\* TextChunker.count_tokens.
CallCountTokens ==
  /\ Idle
  /\ \E text \in Texts :
       /\ op' = "count_tokens"
       /\ args' = [ArgsHere EXCEPT !.text = text]
       /\ result' = count_tokens(text)
  /\ status' = "returned"
  /\ UNCHANGED <<chunk_size, chunk_overlap, minted, raw_chunks, windows, kinds,
                 chunks, origins, advised, tokenizer, selves, calls>>

CallChunkByTokens ==
  /\ Idle
  /\ \E text \in Texts, size_opt \in SizeOverrides, overlap_opt \in OverlapOverrides :
       LET r == chunk_by_tokens(text, size_opt, overlap_opt, chunk_size, chunk_overlap)
       IN /\ op' = "chunk_by_tokens"
          /\ args' = [ArgsHere EXCEPT !.text = text, !.size_opt = size_opt,
                                      !.overlap_opt = overlap_opt]
          /\ raw_chunks' = r.chunks
          /\ windows' = r.windows
          /\ kinds' = << >>
          /\ chunks' = << >>
          /\ status' = Status(r.returned)
  /\ UNCHANGED <<chunk_size, chunk_overlap, minted>>
  /\ origins' = << >>
  /\ advised' = << >>
  /\ UNCHANGED <<result, tokenizer, selves, calls>>

CallChunkBySentences ==
  /\ Idle
  /\ \E text \in Texts, max_opt \in SizeOverrides :
       LET r == chunk_by_sentences(text, max_opt, chunk_size, chunk_overlap)
       IN /\ op' = "chunk_by_sentences"
          /\ args' = [ArgsHere EXCEPT !.text = text, !.size_opt = max_opt]
          /\ raw_chunks' = r.chunks
          /\ windows' = << >>
          /\ kinds' = r.kinds
          /\ chunks' = << >>
          /\ status' = Status(r.returned)
  /\ UNCHANGED <<chunk_size, chunk_overlap, minted>>
  /\ origins' = << >>
  /\ advised' = << >>
  /\ UNCHANGED <<result, tokenizer, selves, calls>>

CallCreateChunks ==
  /\ Idle
  /\ \E text \in DocTexts, strategy \in {"tokens", "sentences"} :
       LET r == create_chunks(text, SourceFile, NoPage, strategy,
                              chunk_size, chunk_overlap, minted)
       IN /\ op' = "create_chunks"
          /\ args' = [ArgsHere EXCEPT !.text = text, !.strategy = strategy]
          /\ chunks' = r.chunks
          /\ minted' = r.minted
          /\ status' = Status(r.returned)
  /\ raw_chunks' = << >>
  /\ windows' = << >>
  /\ kinds' = << >>
  /\ UNCHANGED <<chunk_size, chunk_overlap>>
  /\ origins' = << >>
  /\ advised' = << >>
  /\ UNCHANGED <<result, tokenizer, selves, calls>>

CallChunkDocumentOn(texts, flags) ==
  /\ Idle
  /\ \E text \in texts, auto_optimize \in flags :
       LET r == chunk_document(text, SourceFile, NoPage, auto_optimize,
                               chunk_size, chunk_overlap, minted)
       IN /\ op' = "chunk_document"
          /\ args' = [ArgsHere EXCEPT !.text = text, !.auto_optimize = auto_optimize,
                                      !.strategy = "sentences"]
          /\ chunks' = r.chunks
          /\ chunk_size' = r.size
          /\ advised' = r.advised
          /\ minted' = r.minted
          /\ status' = Status(r.returned)
  /\ raw_chunks' = << >>
  /\ windows' = << >>
  /\ kinds' = << >>
  /\ UNCHANGED chunk_overlap
  /\ origins' = << >>
  /\ UNCHANGED <<result, tokenizer, selves, calls>>

\* chunk_document on a short text, with auto_optimize or without.
CallChunkDocument == CallChunkDocumentOn(DocTexts, BOOLEAN)

\* chunk_document(auto_optimize=True) on a document long enough for the
\* advisor's chunk_size to part its sentences.
CallChunkLongDocument == CallChunkDocumentOn(LongDocTexts, {TRUE})

CallChunkMultiplePages ==
  /\ Idle
  /\ \E pages \in PageDicts, auto_optimize \in BOOLEAN :
       LET r == chunk_multiple_pages(pages, SourceFile, auto_optimize,
                                     chunk_size, chunk_overlap, minted)
       IN /\ op' = "chunk_multiple_pages"
          /\ args' = [ArgsHere EXCEPT !.pages = pages, !.auto_optimize = auto_optimize,
                                      !.strategy = "sentences"]
          /\ chunks' = r.chunks
          /\ chunk_size' = r.size
          /\ advised' = r.advised
          /\ minted' = r.minted
          /\ status' = Status(r.returned)
  /\ raw_chunks' = << >>
  /\ windows' = << >>
  /\ kinds' = << >>
  /\ UNCHANGED chunk_overlap
  /\ origins' = << >>
  /\ UNCHANGED <<result, tokenizer, selves, calls>>

\* merge_small_chunks applied by the caller to the records a call returned.
CallMergeSmallChunks ==
  /\ status = "returned"
  /\ op \in {"create_chunks", "chunk_document", "chunk_multiple_pages",
             "merge_small_chunks"}
  /\ \E min_chunk_size \in MinSizes :
       LET r == merge_small_chunks(chunks, min_chunk_size, minted)
       IN /\ op' = "merge_small_chunks"
          /\ args' = [ArgsHere EXCEPT !.chunks_in = chunks,
                                      !.min_chunk_size = min_chunk_size]
          /\ chunks' = r.chunks
          /\ origins' = r.origins
          /\ minted' = r.minted
          /\ status' = "returned"
  /\ raw_chunks' = << >>
  /\ windows' = << >>
  /\ kinds' = << >>
  /\ UNCHANGED <<chunk_size, chunk_overlap>>
  /\ advised' = << >>
  /\ UNCHANGED <<result, tokenizer, selves, calls>>

\* calculate_optimal_chunk_size called with a token total near a tier
\* boundary, or negative.
TokenTotals ==
  {t + d : t \in {0, ShortDocument, MediumDocument, LongDocument},
           d \in (0 - MaxDelta)..MaxDelta}

CallCalculateOptimalChunkSize ==
  /\ Idle
  /\ \E document_length \in TokenTotals :
       /\ op' = "calculate_optimal_chunk_size"
       /\ args' = [ArgsHere EXCEPT !.document_length = document_length]
       /\ result' = calculate_optimal_chunk_size(document_length)
  /\ status' = "returned"
  /\ UNCHANGED <<chunk_size, chunk_overlap, minted, raw_chunks, windows, kinds,
                 chunks, origins, advised, tokenizer, selves, calls>>

\* get_chunk_statistics applied by the caller to the records a call returned.
CallGetChunkStatistics ==
  /\ status = "returned"
  /\ op \in {"create_chunks", "chunk_document", "chunk_multiple_pages",
             "merge_small_chunks"}
  /\ op' = "get_chunk_statistics"
  /\ args' = [ArgsHere EXCEPT !.chunks_in = chunks]
  /\ result' = get_chunk_statistics(chunks)
  /\ chunks' = << >>
  /\ origins' = << >>
  /\ advised' = << >>
  /\ UNCHANGED <<chunk_size, chunk_overlap, minted, raw_chunks, windows, kinds,
                 status, tokenizer, selves, calls>>

\* The caller is done with what the call returned; the engine keeps none of it.
Return ==
  /\ op \notin {"idle", "new"}
  /\ status = "returned"
  /\ op' = "idle"
  /\ args' = NoArgs
  /\ raw_chunks' = << >>
  /\ windows' = << >>
  /\ kinds' = << >>
  /\ chunks' = << >>
  /\ UNCHANGED <<chunk_size, chunk_overlap, minted, status>>
  /\ origins' = << >>
  /\ advised' = << >>
  /\ result' = NoResult
  /\ UNCHANGED <<tokenizer, selves, calls>>

\* The splitters on their own: the calls that return strings.
NextSplit ==
  \/ CallChunkByTokens
  \/ CallChunkBySentences
  \/ Return

SpecSplit == Init /\ [][NextSplit]_vars

\* The chunk builder: the calls that return chunk records.
Next ==
  \/ CallCreateChunks
  \/ CallChunkDocument
  \/ CallChunkMultiplePages
  \/ CallMergeSmallChunks
  \/ Return

Spec == Init /\ [][Next]_vars

\* The entry points that take one text, called on an instance that has
\* created no chunk yet.
NextText ==
  \/ minted = << >> /\ CallChunkByTokens
  \/ minted = << >> /\ CallChunkBySentences
  \/ minted = << >> /\ CallCreateChunks
  \/ minted = << >> /\ CallChunkDocument
  \/ minted = << >> /\ Return

SpecText == Init /\ [][NextText]_vars

\* One text at a time through create_chunks and chunk_document, the long
\* document included, on an instance that has created no chunk yet.
NextDocument ==
  \/ minted = << >> /\ CallCreateChunks
  \/ minted = << >> /\ CallChunkDocument
  \/ minted = << >> /\ CallChunkLongDocument
  \/ Return

SpecDocument == Init /\ [][NextDocument]_vars

\* Calls that follow one another on one instance: chunk_document, and the
\* sentence packer called directly or through create_chunks.
NextPersist ==
  \/ CallChunkDocument
  \/ CallChunkBySentences
  \/ CallCreateChunks
  \/ Return

SpecPersist == Init /\ [][NextPersist]_vars

\* The advisor on its own.
NextAdvisor ==
  \/ CallCalculateOptimalChunkSize
  \/ Return

SpecAdvisor == Init /\ [][NextAdvisor]_vars

\* Chunk records, merged or not, and their statistics.
NextStats ==
  \/ CallCreateChunks
  \/ CallMergeSmallChunks
  \/ CallGetChunkStatistics
  \/ Return

SpecStats == Init /\ [][NextStats]_vars

\* Construction, and token counting with the encoding it loaded.
NextConstruct ==
  \/ Construct
  \/ CallCountTokens
  \/ Return

SpecConstruct == InitConstruct /\ [][NextConstruct]_vars

\* Every operation of the engine.  The calls that take a text and return
\* strings or a number, and the page loop, are made before the first chunk
\* record; merge_small_chunks is given the records of create_chunks.
NextFrame ==
  \/ minted = << >> /\ CallCountTokens
  \/ minted = << >> /\ CallChunkByTokens
  \/ minted = << >> /\ CallChunkBySentences
  \/ CallCreateChunks
  \/ CallChunkDocument
  \/ minted = << >> /\ CallChunkMultiplePages
  \/ CallCalculateOptimalChunkSize
  \/ op = "create_chunks" /\ CallMergeSmallChunks
  \/ CallGetChunkStatistics
  \/ Return

\* An instance whose windows advance: chunk_overlap < chunk_size.
InitFrame == Init /\ chunk_overlap < chunk_size

SpecFrame == InitFrame /\ [][NextFrame]_vars

(***************************************************************************)
(* Concurrent chunk_document(auto_optimize=True) calls, one per thread.    *)
(* A call is followed through its accesses to what the threads share: the  *)
(* assignment of self.chunk_size, the read of it when chunk_by_sentences   *)
(* packs, each uuid4() of create_chunks, the read of self.chunk_size for   *)
(* the merge threshold, and each uuid4() of merge_small_chunks.            *)
(***************************************************************************)
Threads == {1, 2}
ByInit == 0

\* Each thread calls on an instance of its own, as chunk_text and
\* chunk_pdf_pages do; or all threads call on instance 1.
SharedInstance(t) == 1
\* Mutant of OwnInstance: every thread is handed the first instance.
OwnInstance_first_for_all(t) == 1
OwnInstance(t) == t

\* An instance as __init__ leaves it; set_by tells who assigned chunk_size.
NewInstance(size, overlap) ==
  [chunk_size |-> size, chunk_overlap |-> overlap, set_by |-> ByInit]

NewCall(self, text) ==
  [self |-> self, text |-> text, pc |-> "called",
   size_read |-> 0, size_from |-> ByInit,
   min_size |-> 0, min_from |-> ByInit,
   raw_chunks |-> << >>, i |-> 0, merged_chunks |-> << >>,
   chunks |-> << >>, crossed |-> FALSE]

InitThreads(instance_of) ==
  /\ chunk_size \in 0..MaxSize
  /\ chunk_overlap \in 0..(MaxSize - 1)
  /\ minted = << >>
  /\ op = "idle"
  /\ args = NoArgs
  /\ raw_chunks = << >>
  /\ windows = << >>
  /\ kinds = << >>
  /\ chunks = << >>
  /\ origins = << >>
  /\ advised = << >>
  /\ result = NoResult
  /\ status = "returned"
  /\ tokenizer = LoadedByDefault
  /\ selves = [i \in {instance_of[t] : t \in Threads} |->
                 NewInstance(chunk_size, chunk_overlap)]
  /\ calls \in {[t \in Threads |-> NewCall(instance_of[t], texts[t])] :
                  texts \in [Threads -> PageTexts]}

InitOwn == InitThreads([t \in Threads |-> OwnInstance(t)])
InitShared == InitThreads([t \in Threads |-> SharedInstance(t)])

Me(t) == calls[t]
Self(t) == selves[calls[t].self]
ThreadFrame ==
  UNCHANGED <<chunk_size, chunk_overlap, op, args, raw_chunks, windows, kinds,
              chunks, origins, advised, result, status, tokenizer>>

\* Mutant of Optimize: the advisor's size is not stored in self.chunk_size.
Optimize_not_stored(t) ==
  /\ Me(t).pc = "called"
  /\ calls' = [calls EXCEPT ![t].pc = IF IsBlank(Me(t).text) THEN "done"
                                      ELSE "optimized"]
  /\ UNCHANGED <<selves, minted>>
  /\ ThreadFrame

\* Blank text: return [].  Otherwise self.chunk_size = optimal_size; the
\* calls on the same instance that stand between their own assignment and
\* their last read of the field are crossed by this one.
Optimize(t) ==
  /\ Me(t).pc = "called"
  /\ IF IsBlank(Me(t).text)
     THEN /\ calls' = [calls EXCEPT ![t].pc = "done"]
          /\ UNCHANGED selves
     ELSE /\ selves' = [selves EXCEPT ![Me(t).self] =
                          [@ EXCEPT !.chunk_size = calculate_optimal_chunk_size(
                                                     count_tokens(Me(t).text)),
                                    !.set_by = t]]
          /\ calls' = [u \in Threads |->
                         IF u = t THEN [calls[u] EXCEPT !.pc = "optimized"]
                         ELSE IF /\ calls[u].self = Me(t).self
                                 /\ calls[u].pc \in {"optimized", "packed", "chunked"}
                         THEN [calls[u] EXCEPT !.crossed = TRUE]
                         ELSE calls[u]]
  /\ UNCHANGED minted
  /\ ThreadFrame

\* create_chunks: raw_chunks = self.chunk_by_sentences(text), which reads
\* self.chunk_size.
Pack(t) ==
  /\ Me(t).pc = "optimized"
  /\ LET raw == chunk_by_sentences(Me(t).text, None, Self(t).chunk_size,
                                   Self(t).chunk_overlap)
     IN calls' = [calls EXCEPT ![t].pc = IF ~raw.returned THEN "running"
                                          ELSE IF raw.chunks = << >> THEN "chunked"
                                          ELSE "packed",
                                ![t].size_read = Self(t).chunk_size,
                                ![t].size_from = Self(t).set_by,
                                ![t].raw_chunks = raw.chunks]
  /\ UNCHANGED <<selves, minted>>
  /\ ThreadFrame

\* create_chunks: one turn of the loop over raw_chunks, with its uuid4().
Build(t) ==
  /\ Me(t).pc = "packed"
  /\ LET idx == Len(Me(t).chunks)
         made == chunk_data(uuid4(minted), Me(t).raw_chunks[idx + 1], idx,
                            SourceFile, NoPage, "sentences")
     IN /\ calls' = [calls EXCEPT ![t].pc = IF idx + 1 < Len(Me(t).raw_chunks)
                                               THEN "packed" ELSE "chunked",
                                   ![t].chunks = Append(@, made)]
        /\ minted' = Append(minted, made.chunk_id)
  /\ UNCHANGED selves
  /\ ThreadFrame

\* if auto_optimize and chunks: min_size = max(100, self.chunk_size // 10).
Threshold(t) ==
  /\ Me(t).pc = "chunked"
  /\ IF Me(t).chunks = << >>
     THEN calls' = [calls EXCEPT ![t].pc = "done"]
     ELSE calls' = [calls EXCEPT ![t].pc = "merging",
                                 ![t].min_size = Max(MinSizeFloor,
                                                     Self(t).chunk_size \div MinSizeDivisor),
                                 ![t].min_from = Self(t).set_by,
                                 ![t].i = 0,
                                 ![t].merged_chunks = << >>]
  /\ UNCHANGED <<selves, minted>>
  /\ ThreadFrame

\* merge_small_chunks: one turn of the while loop, with its uuid4() where it
\* merges; the call returns merged_chunks when the loop is over.
Merge(t) ==
  /\ Me(t).pc = "merging"
  /\ LET i == Me(t).i
         current_chunk == Me(t).chunks[i + 1]
         merges == /\ current_chunk.token_count < Me(t).min_size
                   /\ i + 1 < Len(Me(t).chunks)
         appended == IF merges
                     THEN merged_chunk(uuid4(minted), current_chunk,
                                       Me(t).chunks[i + 2])
                     ELSE current_chunk
         next_i == IF merges THEN i + 2 ELSE i + 1
         merged_chunks == Append(Me(t).merged_chunks, appended)
     IN /\ calls' = IF next_i < Len(Me(t).chunks)
                    THEN [calls EXCEPT ![t].i = next_i,
                                       ![t].merged_chunks = merged_chunks]
                    ELSE [calls EXCEPT ![t].pc = "done",
                                       ![t].i = next_i,
                                       ![t].merged_chunks = merged_chunks,
                                       ![t].chunks = merged_chunks]
        /\ minted' = IF merges THEN Append(minted, appended.chunk_id) ELSE minted
  /\ UNCHANGED selves
  /\ ThreadFrame

NextThreads ==
  \/ \E t \in Threads : Optimize(t)
  \/ \E t \in Threads : Pack(t)
  \/ \E t \in Threads : Build(t)
  \/ \E t \in Threads : Threshold(t)
  \/ \E t \in Threads : Merge(t)

\* Every thread with an instance of its own.
SpecOwn == InitOwn /\ [][NextThreads]_vars

\* All threads on one instance.
SpecShared == InitShared /\ [][NextThreads]_vars

(***************************************************************************)
(* Properties.                                                             *)
(***************************************************************************)
\* The configuration a call works with: the arguments where they are given
\* (and not 0), the instance's fields as the call found them otherwise.
EffectiveSize == PyOr(args.size_opt, args.size_before)
EffectiveOverlap == PyOr(args.overlap_opt, chunk_overlap)
ValidPair(size, overlap) == 0 <= overlap /\ overlap < size
InputTokens == count_tokens(args.text)
CeilDiv(a, b) == (a + b - 1) \div b
WindowLen(k) == windows[k][2] - windows[k][1]
InWindow(i, k) == windows[k][1] <= i /\ i < windows[k][2]

\* A call of chunk_by_tokens on a non-blank text under a valid effective
\* configuration.
TokensCall ==
  /\ op = "chunk_by_tokens"
  /\ ~IsBlank(args.text)
  /\ ValidPair(EffectiveSize, EffectiveOverlap)

\* C1: on an instance constructed with 0 <= chunk_overlap < chunk_size, every
\* call of chunk_by_tokens without arguments and of chunk_by_sentences, with
\* or without a positive max_chunk_size, returns.
C1_EveryCallReturns ==
  (/\ ValidPair(args.size_before, chunk_overlap)
   /\ \/ op = "chunk_by_sentences"
      \/ op = "chunk_by_tokens" /\ args.size_opt = None /\ args.overlap_opt = None)
  => status = "returned"

\* C2: chunk_by_tokens called on an instance with chunk_overlap >= chunk_size
\* or chunk_size <= 0 reports a configuration error, and has entered no loop
\* iteration and produced no window.
C2_BadConfigurationRejected ==
  (/\ op = "chunk_by_tokens"
   /\ args.size_opt = None /\ args.overlap_opt = None
   /\ ~IsBlank(args.text)
   /\ ~ValidPair(args.size_before, chunk_overlap))
  => (status = "configuration_error" /\ windows = << >> /\ raw_chunks = << >>)

\* C3: on a non-blank text of N tokens, under a valid effective (size,
\* overlap), chunk_by_tokens returns ceil((N - overlap) / (size - overlap))
\* chunks when N > overlap and 1 chunk when N <= overlap.
C3_ChunkCount ==
  TokensCall =>
    /\ status = "returned"
    /\ Len(raw_chunks) =
         IF InputTokens > EffectiveOverlap
         THEN CeilDiv(InputTokens - EffectiveOverlap, EffectiveSize - EffectiveOverlap)
         ELSE 1

\* C3 witness: a call with a positive overlap, on a text longer than one
\* window, that returned three or more chunks.
C3_Witness ==
  /\ TokensCall
  /\ EffectiveOverlap >= 1
  /\ Len(raw_chunks) >= 3
  /\ InputTokens > EffectiveSize

\* C4: the token ranges of the windows of chunk_by_tokens start at 0, end at
\* N and cover every token index of [0, N); a token index that lies in a
\* window and in an earlier one lies in the last overlap tokens of the window
\* before.
C4_WindowsCover ==
  TokensCall =>
    /\ windows # << >>
    /\ windows[1][1] = 0
    /\ windows[Len(windows)][2] = InputTokens
    /\ \A i \in 0..(InputTokens - 1) : \E k \in 1..Len(windows) : InWindow(i, k)
    /\ \A i \in 0..(InputTokens - 1) : \A j, k \in 1..Len(windows) :
         (j < k /\ InWindow(i, j) /\ InWindow(i, k)) =>
           /\ InWindow(i, k - 1)
           /\ i >= windows[k - 1][2] - EffectiveOverlap

\* C4 witness: a token index outside every overlap region next to one that
\* lies in two windows.
C4_Witness ==
  /\ TokensCall
  /\ Len(windows) >= 2
  /\ \E i \in 0..(InputTokens - 1) :
       Cardinality({k \in 1..Len(windows) : InWindow(i, k)}) = 2
  /\ \E i \in 0..(InputTokens - 1) :
       Cardinality({k \in 1..Len(windows) : InWindow(i, k)}) = 1

\* C5: every window of chunk_by_tokens but the last spans exactly size
\* tokens, the last one between 1 and size, and each window starts overlap
\* tokens before the end of the window before it.
C5_WindowShape ==
  TokensCall =>
    /\ windows # << >>
    /\ \A k \in 1..(Len(windows) - 1) : WindowLen(k) = EffectiveSize
    /\ WindowLen(Len(windows)) >= 1
    /\ WindowLen(Len(windows)) <= EffectiveSize
    /\ \A k \in 1..(Len(windows) - 1) :
         windows[k + 1][1] = windows[k][2] - EffectiveOverlap
    /\ \A k \in 1..Len(windows) :
         raw_chunks[k] = decode(PySlice(encode(args.text), windows[k][1], windows[k][2]))

\* C5 witness: a last window shorter than size after a full one, with a
\* positive overlap.
C5_Witness ==
  /\ TokensCall
  /\ Len(windows) >= 2
  /\ EffectiveOverlap >= 1
  /\ WindowLen(Len(windows)) < EffectiveSize

\* C6: every chunk returned by chunk_by_sentences, whether flushed from the
\* accumulator or cut from an oversized sentence, has at most max_size
\* tokens, for every max_size > 0.
C6_SentenceChunksWithinMax ==
  (/\ op = "chunk_by_sentences"
   /\ status = "returned"
   /\ ValidPair(args.size_before, chunk_overlap))
  => \A k \in 1..Len(raw_chunks) : count_tokens(raw_chunks[k]) <= EffectiveSize

\* C7: every chunk returned by chunk_document, with auto_optimize or
\* without, has token_count <= the instance's chunk_size when the call
\* returns.
C7_DocumentChunksWithinChunkSize ==
  (/\ op = "chunk_document"
   /\ status = "returned"
   /\ ValidPair(args.size_before, chunk_overlap))
  => \A k \in 1..Len(chunks) : chunks[k].token_count <= chunk_size

\* C8: under a valid configuration no string returned by chunk_by_tokens or
\* chunk_by_sentences is empty or whitespace-only.
C8_NoBlankChunk ==
  (/\ op \in {"chunk_by_tokens", "chunk_by_sentences"}
   /\ status = "returned"
   /\ ValidPair(args.size_before, chunk_overlap)
   /\ ValidPair(EffectiveSize, EffectiveOverlap))
  => \A k \in 1..Len(raw_chunks) : ~IsBlank(raw_chunks[k])

\* C9: every chunk record returned by create_chunks, chunk_document,
\* chunk_multiple_pages and by merge_small_chunks applied to such records
\* has token_count = count_tokens(text), character_count = len(text) and
\* word_count = len(text.split()).
C9_CountsMatchText ==
  \A k \in 1..Len(chunks) :
    /\ chunks[k].token_count = count_tokens(chunks[k].text)
    /\ chunks[k].character_count = Len(chunks[k].text)
    /\ chunks[k].word_count = word_count(chunks[k].text)

\* The input chunks a chunk returned by merge_small_chunks was made of.
IsMergeOf(c, i) ==
  /\ i < Len(args.chunks_in)
  /\ c.text = args.chunks_in[i].text \o <<" ">> \o args.chunks_in[i + 1].text
  /\ c \notin {args.chunks_in[j] : j \in 1..Len(args.chunks_in)}

\* C9 witness: merge_small_chunks returned a merged chunk whose token count
\* is not the sum of the token counts of the two chunks it was made of.
C9_Witness ==
  /\ op = "merge_small_chunks"
  /\ \E k \in 1..Len(chunks), i \in 1..Len(args.chunks_in) :
       /\ IsMergeOf(chunks[k], i)
       /\ chunks[k].token_count #
            args.chunks_in[i].token_count + args.chunks_in[i + 1].token_count

Range(seq) == {seq[k] : k \in 1..Len(seq)}
IdsOf(cs) == {cs[k].chunk_id : k \in 1..Len(cs)}
Distinct(seq) == \A i, j \in 1..Len(seq) : i # j => seq[i] # seq[j]

\* C10: no chunk id is given out twice; the chunks one call returns carry
\* different ids; a chunk created by create_chunks, chunk_document or
\* chunk_multiple_pages carries an id not given out before the call; a chunk
\* returned by merge_small_chunks is an input chunk with its id, or carries an
\* id that no input chunk has and that was not given out before the call.
C10_IdsNeverReused ==
  /\ Distinct(minted)
  /\ Distinct([k \in 1..Len(chunks) |-> chunks[k].chunk_id])
  /\ op \in {"create_chunks", "chunk_document", "chunk_multiple_pages"} =>
       \A k \in 1..Len(chunks) :
         chunks[k].chunk_id \notin {args.minted_before[i] :
                                      i \in 1..Len(args.minted_before)}
  /\ op = "merge_small_chunks" =>
       \A k \in 1..Len(chunks) :
         \/ \E i \in 1..Len(args.chunks_in) : chunks[k] = args.chunks_in[i]
         \/ /\ chunks[k].chunk_id \notin IdsOf(args.chunks_in)
            /\ chunks[k].chunk_id \notin {args.minted_before[i] :
                                            i \in 1..Len(args.minted_before)}

\* C10 witness: merge_small_chunks, called after an earlier call had given
\* out ids, returned a merged chunk and an input chunk it kept.
C10_Witness ==
  /\ op = "merge_small_chunks"
  /\ Len(args.minted_before) > Len(args.chunks_in)
  /\ \E k \in 1..Len(chunks), i \in 1..Len(args.chunks_in) : IsMergeOf(chunks[k], i)
  /\ \E k \in 1..Len(chunks), i \in 1..Len(args.chunks_in) : chunks[k] = args.chunks_in[i]

(***************************************************************************)
(* merge_small_chunks, as called on the records a call returned.           *)
(***************************************************************************)
MergeCall == op = "merge_small_chunks"
ChunksIn == args.chunks_in
\* The input chunk at the 0-based position i of the loop.
InputAt(i) == ChunksIn[i + 1]
TooSmall(c) == c.token_count < args.min_chunk_size
\* The loop stood at position origins[k][1] when it appended chunks[k].
PositionOf(k) == origins[k][1]
ConsumedBy(k) == origins[k][2]

\* C11: when the chunk at the current position of merge_small_chunks has
\* fewer than min_size tokens and a next chunk exists, one chunk is appended
\* for the two: its text is current.text, a space, next.text; chunk_index,
\* source_file and page_number are the current chunk's; its strategy is the
\* current chunk's followed by "_merged"; its id was never given out; and the
\* loop goes on behind the next chunk, which is not returned on its own.
C11_PairMergedIntoOne ==
  MergeCall =>
    \A k \in 1..Len(chunks) :
      LET i == PositionOf(k)
      IN (TooSmall(InputAt(i)) /\ i + 1 < Len(ChunksIn)) =>
           /\ ConsumedBy(k) = 2
           /\ chunks[k].text = InputAt(i).text \o <<" ">> \o InputAt(i + 1).text
           /\ chunks[k].chunk_index = InputAt(i).chunk_index
           /\ chunks[k].source_file = InputAt(i).source_file
           /\ chunks[k].page_number = InputAt(i).page_number
           /\ chunks[k].chunking_strategy = InputAt(i).chunking_strategy \o "_merged"
           /\ chunks[k].chunk_id \notin Range(args.minted_before)
           /\ chunks[k].chunk_id \notin IdsOf(ChunksIn)
           /\ k < Len(chunks) => PositionOf(k + 1) = i + 2
           /\ k = Len(chunks) => i + 2 = Len(ChunksIn)
           /\ \A j \in 1..Len(chunks) :
                /\ chunks[j].chunk_id # InputAt(i).chunk_id
                /\ chunks[j].chunk_id # InputAt(i + 1).chunk_id

\* C11 witness: a call on three or more chunks merged a small chunk with a
\* next chunk of another chunk_index, and returned a further chunk after it.
C11_Witness ==
  /\ MergeCall
  /\ Len(ChunksIn) >= 3
  /\ \E k \in 1..(Len(chunks) - 1) :
       /\ ConsumedBy(k) = 2
       /\ TooSmall(InputAt(PositionOf(k)))
       /\ InputAt(PositionOf(k)).chunk_index # InputAt(PositionOf(k) + 1).chunk_index

\* The loop positions of the chunks returned split the input from its first
\* chunk to its last into runs of one or two chunks.
OriginsPartition ==
  /\ Len(origins) = Len(chunks)
  /\ \A k \in 1..Len(chunks) :
       /\ ConsumedBy(k) \in {1, 2}
       /\ PositionOf(k) = IF k = 1 THEN 0 ELSE PositionOf(k - 1) + ConsumedBy(k - 1)
  /\ Len(ChunksIn) = IF chunks = << >> THEN 0
                     ELSE PositionOf(Len(chunks)) + ConsumedBy(Len(chunks))

\* C12: every chunk merge_small_chunks returns is one input chunk unchanged
\* or the merge of two adjacent input chunks, never of more, also when the
\* merged chunk is still below min_size; three undersized chunks c1, c2, c3
\* come back as the merge of c1 and c2, then c3 unchanged.
C12_OnePassPairsOnly ==
  MergeCall =>
    /\ OriginsPartition
    /\ \A k \in 1..Len(chunks) :
         LET i == PositionOf(k)
         IN /\ ConsumedBy(k) = 1 => chunks[k] = InputAt(i)
            /\ ConsumedBy(k) = 2 =>
                 /\ chunks[k].text = InputAt(i).text \o <<" ">> \o InputAt(i + 1).text
                 /\ chunks[k].token_count = count_tokens(chunks[k].text)
    /\ (Len(ChunksIn) = 3 /\ \A j \in 1..3 : TooSmall(ChunksIn[j])) =>
         /\ Len(chunks) = 2
         /\ chunks[1].text = ChunksIn[1].text \o <<" ">> \o ChunksIn[2].text
         /\ chunks[2] = ChunksIn[3]

\* C12 witness: three undersized chunks went in; the merge of the first two
\* is still below min_size and the third came back unchanged behind it.
C12_Witness ==
  /\ MergeCall
  /\ Len(ChunksIn) = 3
  /\ \A j \in 1..3 : TooSmall(ChunksIn[j])
  /\ Len(chunks) = 2
  /\ TooSmall(chunks[1])
  /\ chunks[2] = ChunksIn[3]

\* C13: on chunks that all have at least min_size tokens merge_small_chunks
\* returns the same records in the same order and gives out no id.
C13_IdentityWhenAllLargeEnough ==
  (MergeCall /\ \A j \in 1..Len(ChunksIn) : ~TooSmall(ChunksIn[j]))
  => (chunks = ChunksIn /\ minted = args.minted_before)

\* C13 witness: a call on two or more chunks, one of them of exactly
\* min_size tokens and none smaller, with a min_size above 1.
C13_Witness ==
  /\ MergeCall
  /\ Len(ChunksIn) >= 2
  /\ args.min_chunk_size >= 2
  /\ \A j \in 1..Len(ChunksIn) : ~TooSmall(ChunksIn[j])
  /\ \E j \in 1..Len(ChunksIn) : ChunksIn[j].token_count = args.min_chunk_size
  /\ chunks = ChunksIn

StrictlyIncreasing(seq) == \A j \in 1..(Len(seq) - 1) : seq[j] < seq[j + 1]
IndexesOf(cs) == [k \in 1..Len(cs) |-> cs[k].chunk_index]

\* C14: merge_small_chunks keeps the input order and renumbers nothing: each
\* chunk returned carries the chunk_index of the earliest input chunk it
\* holds, these input chunks come in input order, and strictly increasing
\* input indexes give strictly increasing output indexes.
C14_OrderAndIndexesKept ==
  MergeCall =>
    /\ \A k \in 1..Len(chunks) :
         /\ chunks[k].chunk_index = InputAt(PositionOf(k)).chunk_index
         /\ k > 1 => PositionOf(k - 1) < PositionOf(k)
    /\ StrictlyIncreasing(IndexesOf(ChunksIn)) => StrictlyIncreasing(IndexesOf(chunks))

\* C14 witness: the indexes of the chunks returned increase with a gap.
C14_Witness ==
  /\ MergeCall
  /\ StrictlyIncreasing(IndexesOf(ChunksIn))
  /\ Len(chunks) >= 2
  /\ \E k \in 1..(Len(chunks) - 1) :
       chunks[k + 1].chunk_index > chunks[k].chunk_index + 1


(***************************************************************************)
(* The records of one chunking call.                                       *)
(***************************************************************************)
Contiguous(cs) == \A k \in 1..Len(cs) : cs[k].chunk_index = k - 1

\* C15: the k-th chunk (counted from 0) that create_chunks returns, and that
\* chunk_document returns for one text, has chunk_index k.
C15_IndexesContiguous ==
  (status = "returned" /\ op \in {"create_chunks", "chunk_document"})
  => Contiguous(chunks)

TextsOf(cs) == [k \in 1..Len(cs) |-> cs[k].text]

\* A call of chunk_document starts; the primed variables hold its outcome.
DocumentCallStarts == op = "idle" /\ op' = "chunk_document"

(***************************************************************************)
(* chunk_multiple_pages.                                                   *)
(***************************************************************************)
PagesCall == op = "chunk_multiple_pages"
PageNum(p) == args.pages[p][1]
PageText(p) == args.pages[p][2]
PagesIn == 1..Len(args.pages)

\* C17: in one chunk_multiple_pages(auto_optimize=True) call the advisor
\* runs once, for the document, so self.chunk_size is set once and all pages
\* are packed with one chunk_size.
C17_AdvisorRunsOncePerDocument ==
  (PagesCall /\ args.auto_optimize) => Len(advised) <= 1

\* C18: chunk_multiple_pages returns the chunks in page-number order,
\* whatever the order of the dictionary's keys, and the chunks of one page
\* in increasing chunk_index order.
C18_PageNumberOrder ==
  (PagesCall /\ status = "returned") =>
    \A k \in 1..(Len(chunks) - 1) :
      \/ chunks[k].page_number < chunks[k + 1].page_number
      \/ /\ chunks[k].page_number = chunks[k + 1].page_number
         /\ chunks[k].chunk_index < chunks[k + 1].chunk_index

\* C19: chunk_multiple_pages returns chunks of non-blank pages only, all
\* with the source_file given; every non-blank page has a chunk with its page
\* number and a blank page has none.
C19_BlankPagesSkipped ==
  (PagesCall /\ status = "returned") =>
    /\ \A k \in 1..Len(chunks) :
         /\ chunks[k].source_file = SourceFile
         /\ \E p \in PagesIn :
              PageNum(p) = chunks[k].page_number /\ ~IsBlank(PageText(p))
    /\ \A p \in PagesIn :
         IsBlank(PageText(p)) <=>
           (\A k \in 1..Len(chunks) : chunks[k].page_number # PageNum(p))

\* C19 witness: a dictionary with a whitespace-only first page and a
\* non-blank second page, for which chunks were returned.
C19_Witness ==
  /\ PagesCall
  /\ status = "returned"
  /\ Len(args.pages) = 2
  /\ PageText(1) # << >> /\ IsBlank(PageText(1))
  /\ ~IsBlank(PageText(2))
  /\ chunks # << >>
  /\ \A k \in 1..Len(chunks) : chunks[k].page_number = PageNum(2)

(***************************************************************************)
(* Blank input.                                                            *)
(***************************************************************************)
\* C20: on an empty or whitespace-only text chunk_by_tokens,
\* chunk_by_sentences, create_chunks and chunk_document return an empty
\* sequence, whatever the configuration; no id is drawn and self.chunk_size
\* keeps its value, with auto_optimize too.
C20_BlankTextGivesNothing ==
  (/\ op \in {"chunk_by_tokens", "chunk_by_sentences", "create_chunks",
              "chunk_document"}
   /\ IsBlank(args.text))
  => /\ status = "returned"
     /\ raw_chunks = << >>
     /\ chunks = << >>
     /\ windows = << >>
     /\ chunk_size = args.size_before
     /\ minted = args.minted_before

\* C20 witness: chunk_document(auto_optimize=True) returned from a text of
\* whitespace.
C20_Witness ==
  /\ op = "chunk_document"
  /\ args.auto_optimize
  /\ args.text # << >>
  /\ IsBlank(args.text)
  /\ status = "returned"
  /\ chunk_size # ShortOptimal

(***************************************************************************)
(* The advisor.                                                            *)
(***************************************************************************)
AdvisorCall == op = "calculate_optimal_chunk_size"

\* C21: calculate_optimal_chunk_size(n) is 500 for n <= 2000, 1000 for
\* 2001..10000, 1500 for 10001..50000 and 2000 above 50000, for every
\* integer n; so recommend(2000) = 500, recommend(2001) = 1000,
\* recommend(50000) = 1500, recommend(50001) = 2000, and a larger n never
\* gets a smaller size.
C21_TierTable ==
  AdvisorCall =>
    LET n == args.document_length
    IN /\ n <= 2000 => result = 500
       /\ (2001 <= n /\ n <= 10000) => result = 1000
       /\ (10001 <= n /\ n <= 50000) => result = 1500
       /\ n > 50000 => result = 2000
       /\ \A m \in TokenTotals :
            m <= n => calculate_optimal_chunk_size(m) <= result

\* C21 witness: the advisor returned 1000 for 2001 tokens.
C21_Witness ==
  /\ AdvisorCall
  /\ args.document_length = 2001
  /\ result = 1000

(***************************************************************************)
(* Arguments of chunk_by_tokens.                                           *)
(***************************************************************************)
\* C22: chunk_by_tokens called with chunk_size = s and chunk_overlap = o,
\* 0 <= o < s, o = 0 included, cuts windows of s tokens (the last one may be
\* shorter) that advance by s - o tokens, whatever the instance's chunk_size
\* and chunk_overlap are.
C22_ExplicitArgumentsOverride ==
  (/\ op = "chunk_by_tokens"
   /\ ~IsBlank(args.text)
   /\ args.size_opt # None
   /\ args.overlap_opt # None
   /\ ValidPair(args.size_opt[1], args.overlap_opt[1]))
  => /\ \A k \in 1..(Len(windows) - 1) :
          /\ WindowLen(k) = args.size_opt[1]
          /\ windows[k + 1][1] = windows[k][1] + args.size_opt[1] - args.overlap_opt[1]
     /\ status = "returned"

(***************************************************************************)
(* Concurrent calls.                                                       *)
(***************************************************************************)
Recommended(t) == calculate_optimal_chunk_size(count_tokens(calls[t].text))
\* What the call of thread t returns when it is the only one.
Alone(t) ==
  chunk_document(calls[t].text, SourceFile, NoPage, TRUE,
                 chunk_size, chunk_overlap, << >>)
HasPacked(t) == calls[t].pc \in {"packed", "chunked", "merging", "done"} /\ ~IsBlank(calls[t].text)
HasMerged(t) == calls[t].pc \in {"merging", "done"} /\ calls[t].chunks # << >>

\* C23: calls that run each on an instance of its own, however their steps
\* interleave, pack with the chunk_size recommended for their own text, as
\* their own call assigned it, merge with the min_size derived from it, and
\* return the chunk texts they return when run alone.
C23_OwnInstancesDoNotInterfere ==
  \A t \in DOMAIN calls :
    /\ HasPacked(t) =>
         /\ calls[t].size_read = Recommended(t)
         /\ calls[t].size_from = t
    /\ HasMerged(t) =>
         /\ calls[t].min_size = Max(100, Recommended(t) \div 10)
         /\ calls[t].min_from = t
    /\ calls[t].pc = "done" =>
         TextsOf(calls[t].chunks) = TextsOf(Alone(t).chunks)

\* C23 witness: both calls are under way on different non-blank texts: the
\* first has packed and not merged, the second has assigned chunk_size and
\* not packed.
C23_Witness ==
  /\ DOMAIN calls = Threads
  /\ calls[1].pc = "chunked"
  /\ calls[2].pc = "optimized"
  /\ calls[1].text # calls[2].text
  /\ calls[1].chunks # << >>
  /\ calls[1].self # calls[2].self

\* C24: on one shared instance a call can pack, or take its merge
\* threshold, with the chunk_size another call assigned for its own text;
\* this happens only to a call that another call's assignment crossed
\* between its own assignment and its reads, so calls made one after the
\* other are not exposed to it.
C24_SharedInstanceRace ==
  \A t \in DOMAIN calls :
    /\ (HasPacked(t) /\ calls[t].size_from # t) =>
         /\ calls[t].crossed
         /\ calls[t].size_from \in Threads
         /\ calls[t].size_read = Recommended(calls[t].size_from)
    /\ (HasMerged(t) /\ calls[t].min_from # t) =>
         /\ calls[t].crossed
         /\ calls[t].min_from \in Threads
         /\ calls[t].min_size = Max(100, Recommended(calls[t].min_from) \div 10)
    /\ (HasPacked(t) /\ ~calls[t].crossed) => calls[t].size_read = Recommended(t)

\* C24 witness: a call has returned that packed with the chunk_size the
\* other call assigned, for another text.
C24_Witness ==
  \E t \in DOMAIN calls :
    /\ calls[t].pc = "done"
    /\ calls[t].size_from \in Threads \ {t}
    /\ calls[calls[t].size_from].text # calls[t].text
    /\ calls[t].chunks # << >>

(***************************************************************************)
(* Statistics.                                                             *)
(***************************************************************************)
StatsCall == op = "get_chunk_statistics"
RECURSIVE SumUpTo(_, _)
SumUpTo(f, k) == IF k = 0 THEN 0 ELSE f[k] + SumUpTo(f, k - 1)

\* C25: get_chunk_statistics returns 0 in every field for an empty list;
\* for another list total_chunks is its length, the three totals are the sums
\* of the chunks' fields, min_tokens and max_tokens are the smallest and the
\* largest token_count, and min_tokens * total_chunks <= total_tokens <=
\* max_tokens * total_chunks.
C25_Statistics ==
  StatsCall =>
    LET n == Len(ChunksIn)
        tokens == [k \in 1..n |-> ChunksIn[k].token_count]
        chars == [k \in 1..n |-> ChunksIn[k].character_count]
        words == [k \in 1..n |-> ChunksIn[k].word_count]
    IN /\ n = 0 => \A f \in DOMAIN result : result[f] = 0
       /\ result.total_chunks = n
       /\ result.total_tokens = SumUpTo(tokens, n)
       /\ result.total_characters = SumUpTo(chars, n)
       /\ result.total_words = SumUpTo(words, n)
       /\ n > 0 =>
            /\ \E k \in 1..n : result.min_tokens = tokens[k]
            /\ \E k \in 1..n : result.max_tokens = tokens[k]
            /\ \A k \in 1..n : result.min_tokens <= tokens[k]
                               /\ tokens[k] <= result.max_tokens
            /\ result.min_tokens * n <= result.total_tokens
            /\ result.total_tokens <= result.max_tokens * n

\* C25 witness: statistics of two or more chunks whose first chunk is not
\* the smallest.
C25_Witness ==
  /\ StatsCall
  /\ Len(ChunksIn) >= 2
  /\ result.min_tokens < ChunksIn[1].token_count
  /\ result.total_tokens > result.max_tokens

(***************************************************************************)
(* Construction.                                                           *)
(***************************************************************************)
Constructed == op = "TextChunker"
LoadFailed == tokenizer.encoding_name \notin tokenizer.available

\* C26: constructing a TextChunker with an encoding name that cannot be
\* loaded completes without raising, logs one warning, and leaves the
\* instance with the cl100k_base encoding, which every later call uses.
C26_LoadFailureNeverFailsCaller ==
  /\ Constructed /\ LoadFailed =>
       /\ status = "returned"
       /\ tokenizer.warnings = 1
       /\ tokenizer.encoding = DefaultEncoding
  /\ op \in {"idle", "count_tokens"} /\ LoadFailed =>
       tokenizer.encoding = DefaultEncoding

(***************************************************************************)
(* What the operations write.                                              *)
(***************************************************************************)
Optimizing ==
  /\ args.auto_optimize
  /\ \/ op = "chunk_document" /\ ~IsBlank(args.text)
     \/ PagesCall /\ \E p \in PagesIn : ~IsBlank(PageText(p))
ReadOnlyOps == {"count_tokens", "chunk_by_tokens", "chunk_by_sentences", "create_chunks", "calculate_optimal_chunk_size", "merge_small_chunks", "get_chunk_statistics", "idle"}

\* C27: only chunk_document with auto_optimize=True on a non-blank text,
\* called directly or by chunk_multiple_pages, writes self.chunk_size;
\* count_tokens, chunk_by_tokens, chunk_by_sentences, create_chunks,
\* calculate_optimal_chunk_size, merge_small_chunks, get_chunk_statistics and
\* chunk_document(auto_optimize=False) leave it, and no operation changes
\* self.chunk_overlap.
C27_ConfigurationFrame ==
  [][/\ chunk_overlap' = chunk_overlap
     /\ chunk_size' # chunk_size => Optimizing'
     /\ (\/ op' \in ReadOnlyOps
         \/ op' = "chunk_document" /\ ~args'.auto_optimize)
        => chunk_size' = chunk_size]_vars

\* C27 witness: statistics taken of the chunks of an instance that an
\* optimizing call has left at the advisor's size.
C27_Witness ==
  /\ StatsCall
  /\ ChunksIn # << >>
  /\ chunk_size = ShortOptimal
  /\ chunk_overlap < MaxSize

(***************************************************************************)
(* Sentence packing.                                                       *)
(***************************************************************************)
SentencesCall ==
  /\ op = "chunk_by_sentences"
  /\ status = "returned"
  /\ ~IsBlank(args.text)

\* The non-blank sentences of the text, stripped, in input order.
RECURSIVE NonBlank(_)
NonBlank(ss) ==
  IF ss = << >> THEN << >>
  ELSE IF strip(Head(ss)) = << >> THEN NonBlank(Tail(ss))
  ELSE <<strip(Head(ss))>> \o NonBlank(Tail(ss))
SentencesIn == NonBlank(split_sentences(args.text))
Oversized(sentence) == count_tokens(sentence) > EffectiveSize

\* What each chunk holds: the sentences of a packed chunk, or one window.
Held(k) == IF kinds[k] = "packed" THEN split_sentences(raw_chunks[k]) ELSE <<raw_chunks[k]>>
\* What each sentence must give: itself, or its windows when it is oversized.
Due(sentence) == IF Oversized(sentence) THEN chunk_by_tokens(sentence, Some(EffectiveSize), None, args.size_before, chunk_overlap).chunks ELSE <<sentence>>

\* C28: in the output of chunk_by_sentences every non-blank sentence of at
\* most max_size tokens is whole in exactly one chunk, the sentences are in
\* input order across the chunks, and the windows of an oversized sentence
\* are chunks of their own, after the chunk flushed from the accumulator and
\* joined with no neighbouring sentence.
C28_PackingLosesNothing ==
  SentencesCall =>
    /\ Flatten([k \in 1..Len(raw_chunks) |-> Held(k)])
         = Flatten([j \in 1..Len(SentencesIn) |-> Due(SentencesIn[j])])
    /\ \A k \in 1..Len(raw_chunks) :
         kinds[k] = "packed" =>
           /\ \A j \in 1..Len(Held(k)) : ~Oversized(Held(k)[j])
           /\ Len(Held(k)) > 0

\* C28 witness: a chunk flushed from the accumulator, followed by the
\* windows of the oversized sentence that came next.
C28_Witness ==
  /\ SentencesCall
  /\ \E k \in 1..(Len(raw_chunks) - 2) :
       /\ kinds[k] = "packed"
       /\ kinds[k + 1] = "window"
       /\ kinds[k + 2] = "window"

(***************************************************************************)
(* What one merge pass keeps.                                              *)
(***************************************************************************)
\* " ".join(texts)
RECURSIVE JoinWithSpaces(_)
JoinWithSpaces(texts) ==
  IF texts = << >> THEN << >>
  ELSE IF Len(texts) = 1 THEN texts[1]
  ELSE texts[1] \o <<" ">> \o JoinWithSpaces(Tail(texts))

\* The output chunks that hold the text of the input chunk at position j.
HoldersOf(j) == {k \in 1..Len(chunks) : PositionOf(k) <= j - 1 /\ j - 1 < PositionOf(k) + ConsumedBy(k)}
TextOfRun(k) == JoinWithSpaces([j \in 1..ConsumedBy(k) |-> InputAt(PositionOf(k) + j - 1).text])

\* C29: merge_small_chunks conserves text: the text of every input chunk is
\* in exactly one output chunk, the output texts joined by single spaces are
\* the input texts joined by single spaces, an input of n chunks gives n'
\* chunks with ceil(n / 2) <= n' <= n, and the input records come back as
\* they were where they were not merged.
C29_MergeConservesText ==
  MergeCall =>
    /\ \A j \in 1..Len(ChunksIn) : Cardinality(HoldersOf(j)) = 1
    /\ \A k \in 1..Len(chunks) : chunks[k].text = TextOfRun(k)
    /\ JoinWithSpaces(TextsOf(chunks)) = JoinWithSpaces(TextsOf(ChunksIn))
    /\ CeilDiv(Len(ChunksIn), 2) <= Len(chunks)
    /\ Len(chunks) <= Len(ChunksIn)
    /\ \A k \in 1..Len(chunks) :
         ConsumedBy(k) = 1 => chunks[k] = InputAt(PositionOf(k))

\* C29 witness: three or more chunks went in and the fewest possible came
\* back, merged chunks and an unmerged one among them.
C29_Witness ==
  /\ MergeCall
  /\ Len(ChunksIn) >= 3
  /\ Len(chunks) = CeilDiv(Len(ChunksIn), 2)
  /\ \E k \in 1..Len(chunks) : ConsumedBy(k) = 2
  /\ \E k \in 1..Len(chunks) : ConsumedBy(k) = 1

\* The merge step of chunk_document(auto_optimize=True): the pass is given
\* max(100, chunk_size // 10) as min_chunk_size.
DocumentMinSize == Max(MinSizeFloor, chunk_size \div MinSizeDivisor)

\* C30: in the output of merge_small_chunks(chunks, m), and so of
\* chunk_document(auto_optimize=True) with m = max(100, chunk_size // 10),
\* a chunk of fewer than m tokens is a merged chunk or the last chunk of the
\* output, and such a last, unmerged chunk is the last input chunk unchanged.
C30_UndersizedOnlyAtEnd ==
  /\ MergeCall =>
       \A k \in 1..Len(chunks) :
         (TooSmall(chunks[k]) /\ ConsumedBy(k) # 2) =>
           /\ k = Len(chunks)
           /\ chunks[k] = ChunksIn[Len(ChunksIn)]
  /\ (op = "chunk_document" /\ args.auto_optimize /\ status = "returned") =>
       \A k \in 1..Len(chunks) :
         (chunks[k].token_count < DocumentMinSize
            /\ chunks[k].chunking_strategy # "sentences_merged") =>
           k = Len(chunks)

\* C30 witness: a pass over three or more chunks that merged an undersized
\* chunk into one that is large enough, and left the undersized last chunk
\* unmerged.
C30_Witness ==
  /\ MergeCall
  /\ Len(ChunksIn) >= 3
  /\ \E k \in 1..(Len(chunks) - 1) :
       /\ ConsumedBy(k) = 2
       /\ TooSmall(InputAt(PositionOf(k)))
       /\ ~TooSmall(chunks[k])
  /\ ConsumedBy(Len(chunks)) = 1
  /\ TooSmall(chunks[Len(chunks)])
  /\ chunks[Len(chunks)] = ChunksIn[Len(ChunksIn)]

(***************************************************************************)
(* The optimized chunk_size and the calls that follow.                     *)
(***************************************************************************)
\* A returned call that packs sentences with no size of its own: the texts
\* it returned.
PacksWithField ==
  /\ status = "returned"
  /\ ~IsBlank(args.text)
  /\ \/ op = "chunk_by_sentences" /\ args.size_opt = None
     \/ op = "chunk_document" /\ ~args.auto_optimize
PackedTexts == IF op = "chunk_by_sentences" THEN raw_chunks ELSE TextsOf(chunks)
SentencesOf(text) == split_sentences(text)
Weight(sentences) == SumUpTo([j \in 1..Len(sentences) |-> count_tokens(sentences[j])], Len(sentences))

\* The texts are the given sentences packed greedily under the maximum size: they
\* hold the sentences in order, none weighs more than size, and none was
\* closed while the next sentence still fitted.
PackedUnder(texts, sentences, size) ==
  /\ Flatten([k \in 1..Len(texts) |-> SentencesOf(texts[k])]) = sentences
  /\ \A k \in 1..Len(texts) : Weight(SentencesOf(texts[k])) <= size
  /\ \A k \in 1..(Len(texts) - 1) :
       Weight(SentencesOf(texts[k])) + count_tokens(SentencesOf(texts[k + 1])[1]) > size

\* A call that packs with no size of its own, on a text with no sentence
\* above the chunk_size it found on the instance, packed under that size.
PackedWithSizeFound ==
  (/\ PacksWithField
   /\ \A j \in 1..Len(SentencesIn) : count_tokens(SentencesIn[j]) <= args.size_before)
  => PackedUnder(PackedTexts, SentencesIn, args.size_before)

\* C16: chunk_document(auto_optimize=True) on a non-blank text leaves
\* self.chunk_size at the advisor's recommendation for the text's token
\* count; the value stays when the call has returned and through the calls
\* that follow; and a following chunk_document(auto_optimize=False) or
\* chunk_by_sentences without override, on a text with no sentence above
\* that value, packs the sentences with it, the chunk_size the call found
\* on the instance, as the maximum.
C16_OptimizedSizePersists ==
  /\ [][/\ (DocumentCallStarts /\ args'.auto_optimize /\ ~IsBlank(args'.text))
           => chunk_size' = calculate_optimal_chunk_size(count_tokens(args'.text))
        /\ (\/ op' \in {"idle", "create_chunks", "chunk_by_sentences"}
            \/ DocumentCallStarts /\ ~args'.auto_optimize)
           => chunk_size' = chunk_size
        /\ op' \in {"chunk_document", "chunk_by_sentences"}
           => args'.size_before = chunk_size
       ]_vars
  /\ []PackedWithSizeFound

\* C16 witness: chunk_by_sentences without override ran on an instance whose
\* chunk_size an earlier call had optimized, and returned two sentences in
\* one chunk of more tokens than any chunk_size given at construction.
C16_Witness ==
  /\ op = "chunk_by_sentences"
  /\ PacksWithField
  /\ minted # << >>
  /\ args.size_before = ShortOptimal
  /\ chunk_size = ShortOptimal
  /\ Len(raw_chunks) = 1
  /\ Len(SentencesIn) >= 2
  /\ count_tokens(raw_chunks[1]) > MaxSize

=============================================================================
